---- MODULE Spec2Model ----
(***************************************************************************)
(* A model of the SIUS score calculator: the CSV interpretation and        *)
(* aggregation logic of sius_csv.py, the field matching of sius_fields.py  *)
(* and the request handlers and per-tab store of app_web.py.               *)
(*                                                                         *)
(* Strings are sequences of one-character strings, so that trimming,       *)
(* digit tests, zero padding, lexical comparison and number parsing are    *)
(* computed character by character as Python computes them; the            *)
(* characters are ASCII.  Numbers are exact: an int is a sign and a        *)
(* magnitude of any size, a finite float is a binary64 value, a sign with  *)
(* an odd mantissa and a binary exponent, and float(), int(), str(), +, /  *)
(* and round() give the value CPython gives, ties to even where the binary *)
(* value is a tie.  Counts and positions are machine integers, the divisor *)
(* of a mean is below Limb, and a list sorted has fewer than 64 items, for *)
(* which list.sort is a binary insertion sort after its first run.         *)
(*                                                                         *)
(* A CSV text is read as csv.reader of CPython 3.11 reads it, character    *)
(* by character, with its quoting, line ends and errors; _tab_store is a   *)
(* dict of CPython 3.11, with the order of its entries and the errors of   *)
(* its iterator when it changes under an iteration.                        *)
(*                                                                         *)
(* SpecDelim, SpecDeriver, SpecTable and SpecNames apply the functions of  *)
(* sius_csv.py and sius_fields.py to inputs held in args and leave the     *)
(* call and its outcome in ret.  Spec is the web application: the          *)
(* reference field-name file, the clock, the per-tab store, the requests   *)
(* in flight, one to a connection, each with the locals of its handler,    *)
(* and the request last answered with its response.  A handler runs in     *)
(* steps: an upload reads and interprets its file, reads the clock,        *)
(* assigns the store entry and answers; a data request goes through        *)
(* _get_tab_store and answers; between two steps another thread can run,   *)
(* as CPython 3.11 lets it after a call and at the backward jump of a      *)
(* loop.  Spec has one connection,                                         *)
(* SpecThreads two connections of one session key in threads, and          *)
(* SpecSessions and SpecConcurrent two session keys, their requests        *)
(* handled one after the other and in threads.                             *)
(***************************************************************************)
EXTENDS Integers, Sequences, FiniteSets, TLC

VARIABLES
    args,         \* the inputs of a function under SpecDelim, SpecDeriver, SpecTable;
                  \* in the web application, connection -> the request in flight on
                  \* it with the locals of its handler, a connection being a session
                  \* key and a number
    ret,          \* the call made on them and what it returned or raised
    fields_file,  \* the text of SIUSFields.txt, NoneStr when the file is missing,
                  \* Unreadable when it cannot be opened
    now,          \* time.time(), in seconds
    tab_store,    \* _tab_store: tab id -> [headers, rows, last_used]
    handled       \* the request last answered, the table it had read, the rows it
                  \* passed on and its response

vars == <<args, ret, fields_file, now, tab_store, handled>>

(***************************************************************************)
(* Python str.                                                             *)
(***************************************************************************)

\* The characters of the model, in code-point order.
Uppers ==
    << "A", "B", "C", "D", "E", "F", "G", "H", "I", "J", "K", "L", "M",
       "N", "O", "P", "Q", "R", "S", "T", "U", "V", "W", "X", "Y", "Z" >>

Lowers ==
    << "a", "b", "c", "d", "e", "f", "g", "h", "i", "j", "k", "l", "m",
       "n", "o", "p", "q", "r", "s", "t", "u", "v", "w", "x", "y", "z" >>

Digits == <<"0", "1", "2", "3", "4", "5", "6", "7", "8", "9">>

\* The control characters that count as whitespace and have no escape in a
\* string here: the vertical tab and the file, group, record and unit
\* separators (code points 11 and 28..31), each the character itself.
VT == ""
FS == ""
GS == ""
RS == ""
US == ""

Alphabet ==
    << "\t", "\n", VT, "\f", "\r", FS, GS, RS, US, " ", "\"", "+", ",", "-", "." >>
       \o Digits \o << ";" >> \o Uppers \o << "_" >> \o Lowers

\* The rank of a character in code-point order (str comparison compares these).
Ord(c) == CHOOSE i \in 1..Len(Alphabet) : Alphabet[i] = c

IsDigitChar(c) == \E i \in 1..10 : Digits[i] = c

DigitVal(c) == (CHOOSE i \in 1..10 : Digits[i] = c) - 1

\* The characters str.strip() removes: those of str.isspace().
IsSpaceChar(c) == c \in {"\t", "\n", VT, "\f", "\r", FS, GS, RS, US, " "}

\* str.lower() on one character.
LowerChar(c) ==
    IF \E i \in 1..26 : Uppers[i] = c
    THEN Lowers[CHOOSE i \in 1..26 : Uppers[i] = c]
    ELSE c

\* str.lower()
Lower(s) == [i \in 1..Len(s) |-> LowerChar(s[i])]

RECURSIVE LStrip(_)
LStrip(s) == IF s # <<>> /\ IsSpaceChar(Head(s)) THEN LStrip(Tail(s)) ELSE s

RECURSIVE RStrip(_)
RStrip(s) ==
    IF s # <<>> /\ IsSpaceChar(s[Len(s)]) THEN RStrip(SubSeq(s, 1, Len(s) - 1)) ELSE s

\* str.strip()
Strip(s) == RStrip(LStrip(s))

\* c in s
Contains(s, c) == \E i \in 1..Len(s) : s[i] = c

\* sub in s, for a substring
ContainsSub(s, sub) ==
    \E i \in 0..(Len(s) - Len(sub)) : SubSeq(s, i + 1, i + Len(sub)) = sub

\* str.isdigit(): non-empty and every character a digit.
IsDigit(s) == s # <<>> /\ \A i \in 1..Len(s) : IsDigitChar(s[i])

Zeros(n) == [i \in 1..n |-> "0"]

\* str.zfill(width) of a string without a sign: left-padded with zeros to the
\* width, and unchanged when it is already that long or longer.
ZFill(s, width) == Zeros(width - Len(s)) \o s

\* s < t for two str: the first differing character decides, a proper prefix
\* is smaller.
RECURSIVE StrLess(_, _)
StrLess(s, t) ==
    IF t = <<>> THEN FALSE
    ELSE IF s = <<>> THEN TRUE
    ELSE IF Head(s) # Head(t) THEN Ord(Head(s)) < Ord(Head(t))
    ELSE StrLess(Tail(s), Tail(t))

\* sep.join(cells)
RECURSIVE Join(_, _)
Join(cells, sep) ==
    IF cells = <<>> THEN <<>>
    ELSE IF Len(cells) = 1 THEN cells[1]
    ELSE cells[1] \o <<sep>> \o Join(Tail(cells), sep)

(***************************************************************************)
(* Natural numbers of any size, as Python's int and the arithmetic of a    *)
(* double need them: the limbs of base Limb, the least significant first,  *)
(* the last one not zero; <<>> is 0.                                       *)
(***************************************************************************)

LimbBits == 15
Limb == 2 ^ LimbBits

\* The limbs of a natural number.
RECURSIVE BigOf(_)
BigOf(n) == IF n = 0 THEN <<>> ELSE <<n % Limb>> \o BigOf(n \div Limb)

\* The natural number of a few limbs.
RECURSIVE BigNat(_)
BigNat(a) == IF a = <<>> THEN 0 ELSE a[1] + Limb * BigNat(Tail(a))

\* a without zero limbs at the top.
BigNorm(a) ==
    IF \A i \in 1..Len(a) : a[i] = 0 THEN <<>>
    ELSE SubSeq(a, 1, CHOOSE i \in 1..Len(a) : a[i] # 0 /\ \A j \in (i + 1)..Len(a) : a[j] = 0)

\* The limbs of a sum from the sums s of the limbs of its terms and a carry
\* c of 0 or 1.  The carry into a limb comes from the nearest limb below it
\* whose sum is not Limb - 1, or is c.
BigCarried(s, c) ==
    LET From(j) == IF j = 0 THEN c ELSE IF s[j] >= Limb THEN 1 ELSE 0
        Carry(i) ==
            From(i - CHOOSE d \in 1..i :
                        /\ d = i \/ s[i - d] # Limb - 1
                        /\ \A x \in 1..(d - 1) : s[i - x] = Limb - 1)
    IN  [i \in 1..Len(s) |-> (s[i] + Carry(i)) % Limb]
            \o (IF Carry(Len(s) + 1) = 1 THEN <<1>> ELSE <<>>)

\* a + b + c for a carry c of 0 or 1.
BigAdd(a, b, c) ==
    BigCarried([i \in 1..(IF Len(a) >= Len(b) THEN Len(a) ELSE Len(b)) |->
                    (IF i <= Len(a) THEN a[i] ELSE 0) + (IF i <= Len(b) THEN b[i] ELSE 0)], c)

\* The limbs of a difference from the differences s of the limbs of its
\* terms and a borrow c of 0 or 1.  The borrow from a limb comes from the
\* nearest limb below it whose difference is not 0, or is c.
BigBorrowed(s, c) ==
    LET From(j) == IF j = 0 THEN c ELSE IF s[j] < 0 THEN 1 ELSE 0
        Borrow(i) ==
            From(i - CHOOSE d \in 1..i :
                        /\ d = i \/ s[i - d] # 0
                        /\ \A x \in 1..(d - 1) : s[i - x] = 0)
    IN  [i \in 1..Len(s) |-> (s[i] - Borrow(i) + Limb) % Limb]

\* The limbs of a - b - c for a borrow c of 0 or 1 and a >= b + c, zero
\* limbs at the top included.
BigSub(a, b, c) ==
    BigBorrowed([i \in 1..Len(a) |-> a[i] - (IF i <= Len(b) THEN b[i] ELSE 0)], c)

\* -1, 0 or 1 as a is below, equal to or above b.
BigCmp(a, b) ==
    LET At(i) == IF a[i] < b[i] THEN -1 ELSE 1
    IN  IF Len(a) # Len(b) THEN (IF Len(a) < Len(b) THEN -1 ELSE 1)
        ELSE IF a = b THEN 0
        ELSE At(CHOOSE i \in 1..Len(a) : a[i] # b[i] /\ \A j \in (i + 1)..Len(a) : a[j] = b[j])

\* a * s + c for s <= Limb and c < Limb: the low limbs of the products plus
\* their high limbs one place up.
BigMul(a, s, c) ==
    BigNorm(BigAdd([i \in 1..Len(a) |-> (a[i] * s) % Limb],
                   <<c>> \o [i \in 1..Len(a) |-> (a[i] * s) \div Limb], 0))

\* The quotient q, of Len(a) - 1 limbs, and the remainder r of a by d, for
\* d <= Limb and an a whose top limb is below d: the high limbs are divided
\* first, and their remainder is the top limb in the division of the low ones.
RECURSIVE BigDivFrom(_, _)
BigDivFrom(a, d) ==
    LET Joined(high, low) == [q |-> low.q \o high.q, r |-> low.r]
        Low(h, high) == Joined(high, BigDivFrom(SubSeq(a, 1, h) \o <<high.r>>, d))
        Halves(h) == Low(h, BigDivFrom(SubSeq(a, h + 1, Len(a)), d))
    IN  IF Len(a) = 1 THEN [q |-> <<>>, r |-> a[1]]
        ELSE IF Len(a) = 2
        THEN [q |-> <<(a[2] * Limb + a[1]) \div d>>, r |-> (a[2] * Limb + a[1]) % d]
        ELSE Halves((Len(a) - 1) \div 2)

\* The quotient q and remainder r of a by d, for 1 <= d <= Limb.
BigDiv(a, d) ==
    LET Of(x) == [q |-> BigNorm(x.q), r |-> x.r]
    IN  Of(BigDivFrom(a \o <<0>>, d))

\* a * 2 ** s: s \div LimbBits zero limbs, then the limbs of a moved up by
\* s % LimbBits bits, each taking the bits that leave the limb below it.
BigShl(a, s) ==
    LET At(i, r) ==
            (IF i <= Len(a) THEN (a[i] * 2 ^ r) % Limb ELSE 0)
                + (IF i > 1 THEN (a[i - 1] * 2 ^ r) \div Limb ELSE 0)
        Moved(r) == BigNorm([i \in 1..(Len(a) + 1) |-> At(i, r)])
    IN  IF a = <<>> THEN <<>> ELSE [i \in 1..(s \div LimbBits) |-> 0] \o Moved(s % LimbBits)

\* a \div 2 ** s as q, and whether a bit of a was lost in it: the limbs from
\* s \div LimbBits up moved down by s % LimbBits bits, each taking the bits
\* that leave the limb above it.
BigShr(a, s) ==
    LET Of(i) == IF i <= Len(a) THEN a[i] ELSE 0
        At(i, r) == Of(i) \div 2 ^ r + (Of(i + 1) % 2 ^ r) * 2 ^ (LimbBits - r)
        Moved(k, r) ==
            [q |-> BigNorm([i \in 1..(Len(a) - k) |-> At(i + k, r)]),
             lost |-> (\E i \in 1..k : Of(i) # 0) \/ Of(k + 1) % 2 ^ r # 0]
    IN  Moved(s \div LimbBits, s % LimbBits)

\* The number of bits of a: 0 for 0.
BitLen(a) ==
    LET Top(x) == CHOOSE j \in 1..LimbBits : 2 ^ (j - 1) <= x /\ x < 2 ^ j
    IN  IF a = <<>> THEN 0 ELSE LimbBits * (Len(a) - 1) + Top(a[Len(a)])

\* The number of zero bits at the low end of a, which is not 0.
TrailingZeros(a) ==
    LET Low(x) == CHOOSE j \in 0..(LimbBits - 1) : x % 2 ^ j = 0 /\ x % 2 ^ (j + 1) # 0
        At(i) == LimbBits * (i - 1) + Low(a[i])
    IN  At(CHOOSE i \in 1..Len(a) : a[i] # 0 /\ \A j \in 1..(i - 1) : a[j] = 0)

BigOdd(a) == a # <<>> /\ a[1] % 2 = 1

\* A quotient s.q, below what it stands for if a division lost some of it
\* or lost tells so.
BigLossy(s, lost) == [q |-> s.q, lost |-> s.lost \/ lost]

\* The integer nearest to (s.q + f) / 2, a tie going to the even one, where
\* f is 0, or is some fraction between 0 and 1 if s.lost.
BigHalfEven(s) ==
    BigAdd(BigShr(s.q, 1).q, <<>>,
           IF BigOdd(s.q) /\ (s.lost \/ s.q[1] % 4 >= 2) THEN 1 ELSE 0)

\* a * 10 ** x
RECURSIVE BigMulPow10(_, _)
BigMulPow10(a, x) ==
    IF x = 0 \/ a = <<>> THEN a
    ELSE IF x <= 4 THEN BigMul(a, 10 ^ x, 0)
    ELSE BigMulPow10(BigMulPow10(a, x \div 2), x - x \div 2)

\* a \div 10 ** x as q, and whether the division left a remainder.
RECURSIVE BigDivPow10(_, _)
BigDivPow10(a, x) ==
    LET Last(d) == [q |-> d.q, lost |-> d.r # 0]
        Both(first, rest) == [q |-> rest.q, lost |-> rest.lost \/ first.lost]
        Rest(first) == Both(first, BigDivPow10(first.q, x - x \div 2))
    IN  IF x = 0 \/ a = <<>> THEN [q |-> a, lost |-> FALSE]
        ELSE IF x <= 4 THEN Last(BigDiv(a, 10 ^ x))
        ELSE Rest(BigDivPow10(a, x \div 2))

\* The value of a few digits.
RECURSIVE DigitsValue(_)
DigitsValue(s) ==
    IF s = <<>> THEN 0 ELSE 10 * DigitsValue(SubSeq(s, 1, Len(s) - 1)) + DigitVal(s[Len(s)])

\* A sequence of digits without its leading zeros.
DropLeadingZeros(s) ==
    IF \A i \in 1..Len(s) : s[i] = "0" THEN <<>>
    ELSE SubSeq(s, CHOOSE i \in 1..Len(s) : s[i] # "0" /\ \A j \in 1..(i - 1) : s[j] = "0",
                Len(s))

\* A sequence of digits without its trailing zeros.
DropTrailingZeros(s) ==
    IF \A i \in 1..Len(s) : s[i] = "0" THEN <<>>
    ELSE SubSeq(s, 1, CHOOSE i \in 1..Len(s) :
                        s[i] # "0" /\ \A j \in (i + 1)..Len(s) : s[j] = "0")

\* The digits of a natural number.
RECURSIVE NatStr(_)
NatStr(n) == IF n < 10 THEN <<Digits[n + 1]>> ELSE NatStr(n \div 10) \o <<Digits[(n % 10) + 1]>>

\* The value of a sequence of digits: the one of its last h digits plus
\* 10 ** h times the one of the digits before them.
RECURSIVE DigitsBig(_)
DigitsBig(s) ==
    LET h == Len(s) \div 2
    IN  IF s = <<>> THEN <<>>
        ELSE IF Len(s) = 1 THEN BigOf(DigitVal(s[1]))
        ELSE BigAdd(BigMulPow10(DigitsBig(SubSeq(s, 1, Len(s) - h)), h),
                    DigitsBig(SubSeq(s, Len(s) - h + 1, Len(s))), 0)

\* The digits of a, none for 0: those of its quotient q by 10 ** h, then
\* the h digits of the rest.
RECURSIVE BigDigits(_)
BigDigitsOver(a, h, q) ==
    BigDigits(q) \o ZFill(BigDigits(BigNorm(BigSub(a, BigMulPow10(q, h), 0))), h)

BigDigits(a) ==
    \* a has more than ((BitLen(a) - 1) * 30102) \div 100000 digits
    LET h == (((BitLen(a) - 1) * 30102) \div 100000 + 1) \div 2
    IN  IF a = <<>> THEN <<>>
        ELSE IF Len(a) = 1 THEN NatStr(a[1])
        ELSE BigDigitsOver(a, h, BigDivPow10(a, h).q)

(***************************************************************************)
(* Python numbers.  A value is None, an int, a float, or an exception      *)
(* raised.  An int is its sign and magnitude.  A finite float is the       *)
(* IEEE 754 double (-1) ** neg * m * 2 ** e that it is in CPython: m is    *)
(* odd and below 2 ** 53, e is at least -1074 and m * 2 ** e is below      *)
(* 2 ** 1024; a zero has m = 0 and e = 0 and keeps its sign.  Every        *)
(* operation rounds to the nearest double, a tie to the even one.          *)
(***************************************************************************)

\* The bits of the significand of a double, the exponent of its smallest
\* positive value and the one its values stay below.
MantBits == 53
MinExp == -1074
MaxExp == 1024

\* sys.get_int_max_str_digits()
MaxStrDigits == 4300

None == [k |-> "none"]
\* None where a str is expected: no sequence of characters.
NoneStr == <<"None">>
ValueError == [k |-> "ValueError"]
\* The OverflowError that int() and math.floor() raise on an infinity; one
\* raised elsewhere carries its message.
OverflowError == [k |-> "OverflowError"]
KeyError == [k |-> "KeyError"]
OSError == [k |-> "OSError"]
RuntimeError(msg) == [k |-> "RuntimeError", msg |-> msg]
PyInt(n) == [k |-> "int", neg |-> n < 0, m |-> BigOf(IF n < 0 THEN -n ELSE n)]
PyInf(neg) == [k |-> "inf", neg |-> neg]
PyNaN == [k |-> "nan"]
\* 0.0 and -0.0
PyZero(neg) == [k |-> "float", neg |-> neg, m |-> <<>>, e |-> 0]
\* The int of a sign and a magnitude n; there is no -0.
PySigned(neg, n) == [k |-> "int", neg |-> neg /\ n # <<>>, m |-> n]

IsRaise(x) == x.k \in {"ValueError", "OverflowError", "KeyError", "OSError", "RuntimeError", "Error"}
IsFinite(x) == x.k \in {"int", "float"}

\* The float (-1) ** neg * n * 2 ** e, which is a double.
PyFloat(neg, n, e) ==
    IF n = <<>> THEN PyZero(neg)
    ELSE [k |-> "float", neg |-> neg, m |-> BigShr(n, TrailingZeros(n)).q,
          e |-> e + TrailingZeros(n)]

\* (s.q + f) * 2 ** e, where f is 0, or is some fraction between 0 and 1 if
\* s.lost, as the significand q that a double has room for and the exponent
\* u of its last bit: the bits of s.q below 2 ** u are rounded.  With s.lost,
\* s.q has at least MantBits + 2 bits.
RoundedBits(s, e, u) ==
    IF u <= e THEN [q |-> s.q, u |-> e]
    ELSE [q |-> BigHalfEven(BigLossy(BigShr(s.q, u - e - 1), s.lost)), u |-> u]

\* The float (-1) ** neg * r.q * 2 ** r.u: an infinity from 2 ** MaxExp on.
PyRounded(neg, r) ==
    IF BitLen(r.q) + r.u > MaxExp THEN PyInf(neg) ELSE PyFloat(neg, r.q, r.u)

\* The double nearest to (-1) ** s.neg * (s.q + f) * 2 ** e, where f is 0,
\* or is some fraction between 0 and 1 if s.lost.
RoundToDouble(s, e) ==
    PyRounded(s.neg, RoundedBits(s, e, IF e + BitLen(s.q) - MantBits >= MinExp
                                       THEN e + BitLen(s.q) - MantBits ELSE MinExp))

\* The double nearest to (-1) ** neg * n * 10 ** x: what float() makes of
\* the digits of n and a decimal exponent.  For x < 0 it is rounded from the
\* quotient of n * 2 ** bits by 10 ** -x, which has bits enough.
DecToDouble(neg, n, x) ==
    LET up == IF x >= 0 THEN x ELSE 0
        down == IF x >= 0 THEN 0 ELSE -x
        \* 10 ** down has at most (3322 * down) \div 1000 + 1 bits
        need == MantBits + 4 + (3322 * down) \div 1000 + 1 - BitLen(n)
        bits == IF x >= 0 \/ need < 0 THEN 0 ELSE need
        Signed(d) == [neg |-> neg, q |-> d.q, lost |-> d.lost]
    IN  IF n = <<>> THEN PyZero(neg)
        \* at least 10 ** 309
        ELSE IF x > 0 /\ ((BitLen(n) - 1) * 30102) \div 100000 + x >= 309 THEN PyInf(neg)
        \* below 10 ** -325
        ELSE IF x < 0 /\ (BitLen(n) * 30103) \div 100000 + 1 + x <= -325 THEN PyZero(neg)
        ELSE RoundToDouble(Signed(BigDivPow10(BigShl(BigMulPow10(n, up), bits), down)), -bits)

\* A run of digits as Python's number literals allow it: digits with single
\* underscores between them.
IsDigitRun(s) ==
    /\ s # <<>>
    /\ \A i \in 1..Len(s) :
            \/ IsDigitChar(s[i])
            \/ /\ s[i] = "_"
               /\ 1 < i /\ i < Len(s)
               /\ IsDigitChar(s[i - 1]) /\ IsDigitChar(s[i + 1])

\* The digits of a run, underscores removed.
RunDigits(s) == SelectSeq(s, IsDigitChar)

\* A number text without its sign, and whether the sign is a minus.
Unsigned(s) == IF s # <<>> /\ Head(s) \in {"+", "-"} THEN Tail(s) ELSE s
IsNegative(s) == s # <<>> /\ Head(s) = "-"

\* int() of a sign and the text u after it: a digit run of at most
\* MaxStrDigits digits.
IntOfUnsigned(neg, u) ==
    IF Len(RunDigits(u)) <= MaxStrDigits /\ IsDigitRun(u)
    THEN PySigned(neg, DigitsBig(RunDigits(u)))
    ELSE ValueError

\* The text int() and float() read of a str: s without the whitespace at
\* its ends, which to them is the space, the tab, the line feed, the
\* vertical tab, the form feed and the carriage return.  The separators
\* that str.strip() removes as well are no whitespace to them.
SkipSpace(s) ==
    LET Text(at) ==
            IF at = {} THEN <<>>
            ELSE SubSeq(s, CHOOSE i \in at : \A j \in at : i <= j,
                           CHOOSE i \in at : \A j \in at : j <= i)
    IN  Text({ i \in 1..Len(s) : s[i] \notin {"\t", "\n", VT, "\f", "\r", " "} })

\* int(s) for a str: surrounding whitespace, an optional sign, a digit run.
ParseInt(s) == IntOfUnsigned(IsNegative(SkipSpace(s)), Unsigned(SkipSpace(s)))

\* The position of the first 'e' or 'E' of s, 0 when there is none.
ExpPos(s) ==
    IF \E i \in 1..Len(s) : s[i] \in {"e", "E"}
    THEN CHOOSE i \in 1..Len(s) : s[i] \in {"e", "E"} /\ \A j \in 1..(i - 1) : s[j] \notin {"e", "E"}
    ELSE 0

\* The position of the first '.' of s, 0 when there is none.
DotPos(s) ==
    IF Contains(s, ".")
    THEN CHOOSE i \in 1..Len(s) : s[i] = "." /\ \A j \in 1..(i - 1) : s[j] # "."
    ELSE 0

\* The text before position p of s (all of s when p is 0), and after it.
Before(s, p) == IF p = 0 THEN s ELSE SubSeq(s, 1, p - 1)
After(s, p) == IF p = 0 THEN <<>> ELSE SubSeq(s, p + 1, Len(s))

\* The parts of a decimal text u: the mantissa m before its first 'e' as
\* the text ip before its first '.' and the text fp after it, and the text
\* xt after the 'e', if it has one.
DecimalParts(u) ==
    LET m == Before(u, ExpPos(u))
    IN  [ip |-> Before(m, DotPos(m)), fp |-> After(m, DotPos(m)),
         xt |-> After(u, ExpPos(u)), has_exp |-> ExpPos(u) # 0]

\* A mantissa is digits, digits '.', '.' digits or digits '.' digits; an
\* exponent is an optional sign and digits.
IsDecimal(p) ==
    /\ p.ip # <<>> \/ p.fp # <<>>
    /\ p.ip = <<>> \/ IsDigitRun(p.ip)
    /\ p.fp = <<>> \/ IsDigitRun(p.fp)
    /\ p.has_exp => IsDigitRun(Unsigned(p.xt))

\* The decimal exponent of the last digit of the fraction fp of a decimal
\* with the exponent text xt: an exponent of more than ExpDigits digits
\* stands for one of that many nines.
DecimalExponent(fp, neg, digits) ==
    LET ExpDigits == 6
    IN  (IF neg THEN -1 ELSE 1)
            * (IF Len(digits) > ExpDigits THEN 10 ^ ExpDigits - 1 ELSE DigitsValue(digits))
            - Len(fp)

\* float() of a sign and the parts of a decimal text: the double nearest to
\* its significant digits times a power of ten.
FloatOfDecimal(neg, p) ==
    IF ~IsDecimal(p) THEN ValueError
    ELSE DecToDouble(neg,
                     DigitsBig(DropLeadingZeros(RunDigits(p.ip)
                                                \o DropTrailingZeros(RunDigits(p.fp)))),
                     DecimalExponent(DropTrailingZeros(RunDigits(p.fp)), IsNegative(p.xt),
                                     DropLeadingZeros(RunDigits(Unsigned(p.xt)))))

\* float() of a sign and the text u after it: inf, infinity or nan in any
\* case, or a decimal.
FloatOfUnsigned(neg, u) ==
    IF Lower(u) \in { <<"i","n","f">>, <<"i","n","f","i","n","i","t","y">> } THEN PyInf(neg)
    ELSE IF Lower(u) = <<"n","a","n">> THEN PyNaN
    ELSE FloatOfDecimal(neg, DecimalParts(u))

\* float(s) for a str: surrounding whitespace, an optional sign, the rest.
ParseFloat(s) == FloatOfUnsigned(IsNegative(SkipSpace(s)), Unsigned(SkipSpace(s)))

\* float(x) for a number: an int too large for a double has none
\* (OverflowError).
FloatOf(x) ==
    LET Raised == [k |-> "OverflowError", msg |-> "int too large to convert to float"]
        Checked(f) == IF f.k = "inf" THEN Raised ELSE f
    IN  IF x.k = "int" THEN Checked(RoundToDouble([neg |-> x.neg, q |-> x.m, lost |-> FALSE], 0)) ELSE x

\* int(x) for a number: truncation toward zero; an infinity has no int
\* (OverflowError), nor has a NaN (ValueError).
IntOf(x) ==
    CASE x.k = "int" -> x
      [] x.k = "float" ->
            PySigned(x.neg, IF x.e >= 0 THEN BigShl(x.m, x.e) ELSE BigShr(x.m, -x.e).q)
      [] x.k = "inf" -> OverflowError
      [] x.k = "nan" -> ValueError

\* math.floor(x): the largest int not above x.
FloorOf(x) ==
    LET Down(s) == BigAdd(s.q, <<>>, IF x.neg /\ s.lost THEN 1 ELSE 0)
    IN  CASE x.k = "int" -> x
          [] x.k = "float" ->
                PySigned(x.neg, IF x.e >= 0 THEN BigShl(x.m, x.e) ELSE Down(BigShr(x.m, -x.e)))
          [] x.k = "inf" -> OverflowError
          [] x.k = "nan" -> ValueError

\* -1, 0 or 1 as the magnitude of the finite number a is below, equal to
\* or above the one of the finite number b.
MagCmp(a, b) ==
    LET E(x) == IF x.k = "int" THEN 0 ELSE x.e
        low == IF E(a) <= E(b) THEN E(a) ELSE E(b)
    IN  IF a.m = <<>> \/ b.m = <<>> THEN (IF a.m = b.m THEN 0 ELSE IF a.m = <<>> THEN -1 ELSE 1)
        ELSE IF BitLen(a.m) + E(a) # BitLen(b.m) + E(b)
        THEN (IF BitLen(a.m) + E(a) < BitLen(b.m) + E(b) THEN -1 ELSE 1)
        ELSE BigCmp(BigShl(a.m, E(a) - low), BigShl(b.m, E(b) - low))

\* a == b for two numbers (an int equals the float of the same value, the
\* two zeros are equal; a NaN equals nothing).
NumEq(a, b) ==
    CASE IsFinite(a) /\ IsFinite(b) ->
            MagCmp(a, b) = 0 /\ (a.neg = b.neg \/ a.m = <<>>)
      [] a.k = "inf" /\ b.k = "inf" -> a.neg = b.neg
      [] OTHER -> FALSE

\* a < b for two numbers (every comparison with a NaN is false).
NumLess(a, b) ==
    CASE IsFinite(a) /\ IsFinite(b) ->
            IF a.m = <<>> /\ b.m = <<>> THEN FALSE
            ELSE IF a.m = <<>> THEN ~b.neg
            ELSE IF b.m = <<>> THEN a.neg
            ELSE IF a.neg # b.neg THEN a.neg
            ELSE MagCmp(a, b) = (IF a.neg THEN 1 ELSE -1)
      [] a.k = "nan" \/ b.k = "nan" -> FALSE
      [] a.k = "inf" /\ b.k = "inf" -> a.neg /\ ~b.neg
      [] a.k = "inf" -> a.neg
      [] b.k = "inf" -> ~b.neg

\* The sum of two signed magnitudes, which is exact: its sign, +0 when the
\* two cancel, and its magnitude q.
SignedSum(xneg, x, yneg, y) ==
    IF xneg = yneg THEN [neg |-> xneg, q |-> BigAdd(x, y, 0), lost |-> FALSE]
    ELSE IF BigCmp(x, y) = 0 THEN [neg |-> FALSE, q |-> <<>>, lost |-> FALSE]
    ELSE IF BigCmp(x, y) = 1 THEN [neg |-> xneg, q |-> BigNorm(BigSub(x, y, 0)), lost |-> FALSE]
    ELSE [neg |-> yneg, q |-> BigNorm(BigSub(y, x, 0)), lost |-> FALSE]

\* The sum of two doubles that are not zero, hi of the exponent that is not
\* the lower one: the double nearest to the exact sum s * 2 ** lo.e.  When
\* the magnitude of lo is below a quarter of the last bit of hi, the sum is
\* taken as hi, with MantBits + 4 bits more, and a fraction of its last bit,
\* more or less.
DoubleSum(hi, lo) ==
    LET far == hi.e - lo.e > 2 * MantBits + 4
    IN  RoundToDouble(IF far
                      THEN [neg |-> hi.neg, lost |-> TRUE,
                            q |-> BigNorm(BigSub(BigShl(hi.m, MantBits + 4),
                                                 IF hi.neg = lo.neg THEN <<>> ELSE <<1>>, 0))]
                      ELSE SignedSum(hi.neg, BigShl(hi.m, hi.e - lo.e), lo.neg, lo.m),
                      IF far THEN hi.e - (MantBits + 4) ELSE lo.e)

\* x + y for the two floats fs, or the exception that one of them is.
FloatSum(fs) ==
    LET x == fs[1]
        y == fs[2]
    IN  IF IsRaise(x) THEN x
        ELSE IF IsRaise(y) THEN y
        ELSE IF x.k = "nan" \/ y.k = "nan" THEN PyNaN
        ELSE IF x.k = "inf" /\ y.k = "inf" THEN (IF x.neg = y.neg THEN x ELSE PyNaN)
        ELSE IF x.k = "inf" THEN x
        ELSE IF y.k = "inf" THEN y
        ELSE IF x.m = <<>> /\ y.m = <<>> THEN PyZero(x.neg /\ y.neg)
        ELSE IF y.m = <<>> THEN x
        ELSE IF x.m = <<>> THEN y
        ELSE DoubleSum(IF x.e >= y.e THEN x ELSE y, IF x.e >= y.e THEN y ELSE x)

\* a + b: an int when both are ints, else the sum of float(a) and float(b)
\* rounded to a double; OverflowError when an int is too large for one.
NumAdd(a, b) ==
    LET Ints(s) == PySigned(s.neg, s.q)
    IN  IF a.k = "int" /\ b.k = "int" THEN Ints(SignedSum(a.neg, a.m, b.neg, b.m))
        ELSE FloatSum([i \in 1..2 |-> FloatOf(<<a, b>>[i])])

\* a / n for a count n >= 1: the quotient rounded to a double, of float(a)
\* if a is a float and of the int itself if it is an int (OverflowError
\* when the quotient is too large for a double).  It is rounded from the
\* quotient of a * 2 ** bits by n, which has bits enough.
NumDiv(a, n) ==
    LET E(x) == IF x.k = "int" THEN 0 ELSE x.e
        need == MantBits + 3 + BitLen(BigOf(n)) - BitLen(a.m)
        bits == IF need < 0 THEN 0 ELSE need
        Raised == [k |-> "OverflowError", msg |-> "integer division result too large for a float"]
        Checked(f) == IF a.k = "int" /\ f.k = "inf" THEN Raised ELSE f
        Floored(d) == [neg |-> a.neg, q |-> d.q, lost |-> d.r # 0]
    IN  CASE IsFinite(a) ->
            IF a.m = <<>> THEN PyZero(a.neg)
            ELSE Checked(RoundToDouble(Floored(BigDiv(BigShl(a.m, bits), n)), E(a) - bits))
      [] OTHER -> a

\* round(x, 4): an int stays the int, an infinity or NaN stays itself; a
\* float goes to the nearest multiple of 0.0001, a tie to the even one, and
\* from there to the double nearest to that decimal.
RoundDigits == 4

Round4(x) ==
    CASE x.k = "float" ->
            IF x.e >= 0 THEN x
            ELSE DecToDouble(x.neg,
                             BigHalfEven(BigShr(BigMulPow10(x.m, RoundDigits), -x.e - 1)),
                             -RoundDigits)
      [] OTHER -> x

\* The floor of twice x * 10 ** p for a positive double x, as q, and whether
\* it is below that.
TwiceScaled(x, p) ==
    LET Shr(d, by) == BigLossy(BigShr(d.q, by), d.lost)
    IN  Shr(BigDivPow10(BigShl(BigMulPow10(x.m, IF p >= 0 THEN p ELSE 0),
                               IF x.e + 1 >= 0 THEN x.e + 1 ELSE 0),
                        IF p >= 0 THEN 0 ELSE -p),
            IF x.e + 1 >= 0 THEN 0 ELSE -(x.e + 1))

\* The exponent of the first digit of a positive double x, which stands at
\* 10 ** guess or next to it: x * 10 ** (2 - guess) has 2, 3 or 4 digits
\* before the point.
FirstDigitAt(x, guess) ==
    guess + Len(BigDigits(BigShr(TwiceScaled(x, 2 - guess).q, 1).q)) - 3

\* The two integers next to a number from the floor s.q of twice the
\* number (it is above that if s.lost): the nearer one, the even one in a
\* tie, and the other one.
NearAndFar(s) ==
    LET up == BigOdd(s.q) /\ (s.lost \/ s.q[1] % 4 >= 2)
    IN  [near |-> BigAdd(BigShr(s.q, 1).q, <<>>, IF up THEN 1 ELSE 0),
         far |-> BigAdd(BigShr(s.q, 1).q, <<>>, IF up THEN 0 ELSE 1)]

\* The digits of repr(x) for a positive double x whose first digit stands at
\* 10 ** t: the decimal of n digits nearest to x that float() takes back to
\* x, or else the next nearest one, for the least n that has one, as the
\* digits of c and the exponent of the last of them.
\*   back: those of the two decimals c * 10 ** (t - n + 1) next to x that
\*     float() takes back to x.
RECURSIVE ShortestDigits(_, _, _)
ShortestPicked(x, n, t, c, back) ==
    IF back = {} THEN ShortestDigits(x, n + 1, t)
    ELSE [digits |-> BigDigits(IF c.near \in back THEN c.near ELSE c.far), x |-> t - n + 1]

ShortestAmong(x, n, t, c) ==
    ShortestPicked(x, n, t, c,
                   {d \in {c.near, c.far} :
                        DecToDouble(FALSE, d, t - n + 1) = [x EXCEPT !.neg = FALSE]})

ShortestDigits(x, n, t) == ShortestAmong(x, n, t, NearAndFar(TwiceScaled(x, n - 1 - t)))

\* str(x) of a number: an int is its digits; a float is the shortest
\* decimal that float() takes back to it, with an exponent when the first
\* digit stands below 1e-4 or at 1e16 or above.
NumStr(x) ==
    LET Minus(neg) == IF neg THEN <<"-">> ELSE <<>>
        Shown(digits) == IF digits = <<>> THEN <<"0">> ELSE digits
        Abs(v) == IF v < 0 THEN -v ELSE v
        Pad2(s) == IF Len(s) < 2 THEN <<"0">> \o s ELSE s
        Point(s) == IF s = <<>> THEN <<>> ELSE <<".">> \o s
        Written(d, t) ==
            IF t < -4 \/ t >= 16
            THEN <<Head(d)>> \o Point(Tail(d)) \o <<"e">>
                    \o (IF t < 0 THEN <<"-">> ELSE <<"+">>) \o Pad2(NatStr(Abs(t)))
            ELSE IF t < 0 THEN <<"0", ".">> \o Zeros(-t - 1) \o d
            ELSE IF Len(d) <= t + 1 THEN d \o Zeros(t + 1 - Len(d)) \o <<".", "0">>
            ELSE SubSeq(d, 1, t + 1) \o <<".">> \o SubSeq(d, t + 2, Len(d))
        Of(r) == Written(DropTrailingZeros(r.digits), r.x + Len(r.digits) - 1)
        \* the first digit of x stands at 10 ** t for a t near this one
        guess == ((BitLen(x.m) + x.e - 1) * 30103) \div 100000
    IN  CASE x.k = "int" -> Minus(x.neg) \o Shown(BigDigits(x.m))
          [] x.k = "float" ->
                Minus(x.neg) \o (IF x.m = <<>> THEN <<"0", ".", "0">>
                                 ELSE Of(ShortestDigits(x, 1, FirstDigitAt(x, guess))))
          [] x.k = "inf" -> Minus(x.neg) \o <<"i", "n", "f">>
          [] x.k = "nan" -> <<"n", "a", "n">>

(***************************************************************************)
(* sius_csv.py: cells, delimiter, sort keys, the Score Deriver.            *)
(***************************************************************************)

DEFAULT_DELIMITER == ";"

\* v = (value or "").strip(): "" is None; a '.' or an 'e' in any case sends
\* the text to float(), anything else to int(); ValueError is None.  Only
\* ValueError is caught, and neither parser raises anything else.
_parse_value(value) ==
    LET v == Strip(value)
        Caught(r) == IF r = ValueError THEN None ELSE r
    IN  IF v = <<>> THEN None
        ELSE Caught(IF Contains(v, ".") \/ Contains(Lower(v), "e")
                    THEN ParseFloat(v)
                    ELSE ParseInt(v))

_is_numeric(value) == Strip(value) # <<>> /\ ParseFloat(Strip(value)) # ValueError

\* A detection that knows no comma: whatever is not semicolon-only is the
\* default.
GuessWithoutComma(first_line) ==
    IF Contains(first_line, ";") /\ ~Contains(first_line, ",") THEN ";"
    ELSE DEFAULT_DELIMITER

_guess_delimiter_from_first_line(first_line) ==
    IF Contains(first_line, ";") /\ ~Contains(first_line, ",") THEN ";"
    ELSE IF Contains(first_line, ",") THEN ","
    ELSE DEFAULT_DELIMITER

\* next((i for i, h in enumerate(headers) if h == name), None): the first
\* position holding the name, counted from 1; 0 stands for None.
IndexOf(headers, name) ==
    IF \E i \in 1..Len(headers) : headers[i] = name
    THEN CHOOSE i \in 1..Len(headers) :
            headers[i] = name /\ \A j \in 1..(i - 1) : headers[j] # name
    ELSE 0

\* row[idx] if idx < len(row), for a position counted from 1.
HasCell(row, idx) == idx >= 1 /\ idx <= Len(row)

\* _parse_value(row[idx]) if idx is not None and idx < len(row) else None.
CellValue(row, idx) == IF HasCell(row, idx) THEN _parse_value(row[idx]) ELSE None

\* The key of a Time: (0, float) when float() takes the stripped text, else
\* (1, text).
_time_sort_key(time_val) ==
    LET Key(v, f) == IF f = ValueError THEN <<1, v>> ELSE <<0, f>>
    IN  Key(Strip(time_val), ParseFloat(Strip(time_val)))

\* a < b for two Time keys (tuples compare by their first differing item).
TimeKeyLess(a, b) ==
    IF a[1] # b[1] THEN a[1] < b[1]
    ELSE IF a[1] = 0 THEN NumLess(a[2], b[2])
    ELSE StrLess(a[2], b[2])

\* The key of an identifier in both aggregators:
\* (x.isdigit(), x.zfill(10) if x.isdigit() else x).
IdSortKey(x) == <<IsDigit(x), IF IsDigit(x) THEN ZFill(x, 10) ELSE x>>

\* a < b for two (bool, str) keys; False < True.
IdKeyLess(a, b) ==
    IF a[1] # b[1] THEN ~a[1] /\ b[1]
    ELSE StrLess(a[2], b[2])

\* The insertion of a keyed item into keyed items in ascending order, after
\* those of an equal key; a key is (bool, str).
RECURSIVE InsertByKey(_, _)
InsertByKey(e, s) ==
    IF s = <<>> THEN <<e>>
    ELSE IF IdKeyLess(e.key, Head(s).key) THEN <<e>> \o s
    ELSE <<Head(s)>> \o InsertByKey(e, Tail(s))

RECURSIVE SortedKeyed(_)
SortedKeyed(es) ==
    IF es = <<>> THEN <<>>
    ELSE InsertByKey(es[Len(es)], SortedKeyed(SubSeq(es, 1, Len(es) - 1)))

\* sorted(xs, key=...): stable, ascending; keys[i] is the key of xs[i].
SortedByKey(xs, keys) ==
    LET Items(es) == [i \in 1..Len(es) |-> es[i].item]
    IN  Items(SortedKeyed([i \in 1..Len(xs) |-> [key |-> keys[i], item |-> xs[i]]]))

\* binarysort's search for the place of the pivot x among the sorted items
\* s, which looks at the middle item p of those left between l and r:
\* IFLT(pivot, *p) r = p; else l = p + 1.
RECURSIVE BinaryPlace(_, _, _, _)
BinaryPlace(x, s, l, r) ==
    IF l >= r THEN l
    ELSE IF TimeKeyLess(x.key, s[l + (r - l) \div 2 + 1].key)
    THEN BinaryPlace(x, s, l, l + (r - l) \div 2)
    ELSE BinaryPlace(x, s, l + (r - l) \div 2 + 1, r)

\* binarysort: the items of a from position start down to the end of the
\* run are inserted one by one into the run, each at its place.
RECURSIVE BinarySorted(_, _, _)
BinarySorted(a, run, start) ==
    LET Inserted(x, s, p) == SubSeq(s, 1, p) \o <<x>> \o SubSeq(s, p + 1, Len(s))
        Binary(x, s) == Inserted(x, s, BinaryPlace(x, s, 0, Len(s)))
    IN  IF start <= Len(run) THEN run ELSE Binary(a[start], BinarySorted(a, run, start - 1))

\* count_run and binarysort on the keyed items a of two or more, of which
\* falls[i] says that item i + 1 is below item i: the run the list starts
\* with is as long as its steps fall like the first one, and is reversed if
\* they fall.
RunSorted(a, falls) ==
    LET Reversed(s) == [i \in 1..Len(s) |-> s[Len(s) + 1 - i]]
        RunLen(descending) ==
            CHOOSE n \in 2..Len(a) :
                /\ \A i \in 3..n : falls[i - 1] = descending
                /\ n = Len(a) \/ falls[n] # descending
        Run(n, descending) ==
            IF descending THEN Reversed(SubSeq(a, 1, n)) ELSE SubSeq(a, 1, n)
    IN  BinarySorted(a, Run(RunLen(falls[1]), falls[1]), Len(a))

\* The keyed items in ascending order as CPython sorts a list of fewer than
\* 64 items, which is all one run.  Only < of the keys is asked, so that
\* items of equal keys keep their order and a NaN, which is below nothing
\* and above nothing, stays where the search leaves it.
AscendingByTimeKey(a) ==
    IF Len(a) < 2 THEN a
    ELSE RunSorted(a, [i \in 1..(Len(a) - 1) |-> TimeKeyLess(a[i + 1].key, a[i].key)])

\* shots.sort(key=..., reverse=True): the list is reversed, the keys are
\* taken, the list is sorted in ascending order of the keys, and reversed
\* again.
SortedShots(shots) ==
    LET Reversed(s) == [i \in 1..Len(s) |-> s[Len(s) + 1 - i]]
        Items(es) == [i \in 1..Len(es) |-> es[i].item]
    IN  Items(Reversed(AscendingByTimeKey(Reversed(
            [i \in 1..Len(shots) |-> [key |-> _time_sort_key(shots[i].Time), item |-> shots[i]]]))))

\* What a cell of the column does to the loop of _column_has_decimals, from
\* what float() made of it: a ValueError is passed; int(f) of an infinity
\* raises OverflowError, which the except ValueError does not catch, and
\* that of a NaN raises ValueError, which it does; f != int(f) returns True.
FloatHasFraction(f) ==
    LET Fraction(n) ==
            IF n = OverflowError THEN "raise"
            ELSE IF n = ValueError THEN "continue"
            ELSE IF ~NumEq(f, n) THEN "return True"
            ELSE "continue"
    IN  IF f = ValueError THEN "continue" ELSE Fraction(IntOf(f))

\* The loop of _column_has_decimals from row i on: a row too short or with a
\* blank cell is skipped, a cell float() refuses is skipped, the first cell
\* with f != int(f) answers True.
RECURSIVE ColumnHasDecimalsFrom(_, _, _)
ColumnHasDecimalsFrom(rows, col_idx, i) ==
    LET Step(does) ==
            IF does = "return True" THEN [k |-> "ok", v |-> TRUE]
            ELSE IF does = "raise" THEN OverflowError
            ELSE ColumnHasDecimalsFrom(rows, col_idx, i + 1)
    IN  IF i > Len(rows) THEN [k |-> "ok", v |-> FALSE]
        ELSE IF ~HasCell(rows[i], col_idx) THEN ColumnHasDecimalsFrom(rows, col_idx, i + 1)
        ELSE IF Strip(rows[i][col_idx]) = <<>> THEN ColumnHasDecimalsFrom(rows, col_idx, i + 1)
        ELSE Step(FloatHasFraction(ParseFloat(Strip(rows[i][col_idx]))))

\* The answer ([k |-> "ok", v |-> True or False]) or the exception raised.
_column_has_decimals(rows, col_idx) == ColumnHasDecimalsFrom(rows, col_idx, 1)

\* A deriver that takes the floor of the secondary where the Score Deriver
\* truncates it.
DeriverFlooringSecondary(primary_val, secondary_val, primary_is_decimal) ==
    LET Scores(decimal_val, integer_val) ==
            IF IsRaise(integer_val) THEN integer_val
            ELSE [k |-> "ok", decimal |-> decimal_val, integer |-> integer_val]
    IN  IF primary_is_decimal
        THEN Scores(primary_val,
                    IF secondary_val # None /\ ~NumEq(secondary_val, PyInt(0))
                    THEN FloorOf(secondary_val)
                    ELSE IF primary_val # None THEN FloorOf(primary_val)
                    ELSE None)
        ELSE Scores(secondary_val, IF primary_val # None THEN IntOf(primary_val) ELSE None)

\* The Score Deriver: (decimal_val, integer_val), or the exception int() or
\* math.floor() raises on an infinity or a NaN.
_decimal_and_integer_scores(primary_val, secondary_val, primary_is_decimal) ==
    LET Scores(decimal_val, integer_val) ==
            IF IsRaise(integer_val) THEN integer_val
            ELSE [k |-> "ok", decimal |-> decimal_val, integer |-> integer_val]
    IN  IF primary_is_decimal
        THEN Scores(primary_val,
                    IF secondary_val # None /\ ~NumEq(secondary_val, PyInt(0))
                    THEN IntOf(secondary_val)
                    ELSE IF primary_val # None THEN FloorOf(primary_val)
                    ELSE None)
        ELSE Scores(secondary_val, IF primary_val # None THEN IntOf(primary_val) ELSE None)

(***************************************************************************)
(* sius_csv.py: the aggregators and the shot selector.  A defaultdict is   *)
(* the sequence of its entries in insertion order, each with its key.      *)
(***************************************************************************)

\* The position of the entry of by_id with the key, 0 when it has none.
EntryOf(by_id, id_val) ==
    IF \E i \in 1..Len(by_id) : by_id[i].id = id_val
    THEN CHOOSE i \in 1..Len(by_id) : by_id[i].id = id_val
    ELSE 0

\* The keys of by_id in insertion order.
Keys(by_id) == [i \in 1..Len(by_id) |-> by_id[i].id]

\* by_id[id_val] of a defaultdict: a key it lacks gets the new entry.
WithEntry(by_id, id_val, new) ==
    IF EntryOf(by_id, id_val) = 0 THEN Append(by_id, new) ELSE by_id

\* The entry a defaultdict of summarize_decimal_integer makes for a new key.
NewDecIntEntry(id_val) ==
    [id |-> id_val, count |-> 0, decimal_sum |-> PyZero(FALSE), decimal_n |-> 0,
     integer_sum |-> PyInt(0), integer_n |-> 0]

\* (row[id_idx] or "").strip() of a row that has the cell.
IdOf(row, id_idx) == Strip(row[id_idx])

\* The rows the aggregators pass over: too short for the identifier column,
\* or with a blank identifier.
SkipsRow(row, id_idx) == ~HasCell(row, id_idx) \/ IdOf(row, id_idx) = <<>>

\* One row of the loop of summarize_decimal_integer on an entry: the entry
\* after it, or the OverflowError of decimal_sum += decimal_score for an int
\* too large for a float.
DecIntAccumulate(rec, decimal_score, integer_score) ==
    LET Summed(decimal_sum, integer_sum) ==
            IF IsRaise(decimal_sum) THEN decimal_sum
            ELSE [k |-> "ok",
                  rec |-> [rec EXCEPT
                    !.count = @ + 1,
                    !.decimal_sum = decimal_sum,
                    !.decimal_n = IF decimal_score # None THEN @ + 1 ELSE @,
                    !.integer_sum = integer_sum,
                    !.integer_n = IF integer_score # None THEN @ + 1 ELSE @]]
    IN  Summed(IF decimal_score # None THEN NumAdd(rec.decimal_sum, decimal_score)
               ELSE rec.decimal_sum,
               IF integer_score # None THEN NumAdd(rec.integer_sum, integer_score)
               ELSE rec.integer_sum)

\* The body of the loop of summarize_decimal_integer from the scores of the
\* row on: by_id, which is had with the row added to its entry at position
\* at ([k |-> "ok", by_id |-> ...]), or the exception that the Score Deriver
\* or the sum raised.
DecIntRow(had, at, scores) ==
    LET Stored(added) ==
            IF IsRaise(added) THEN added
            ELSE [k |-> "ok", by_id |-> [had EXCEPT ![at] = added.rec]]
    IN  IF IsRaise(scores) THEN scores
        ELSE Stored(DecIntAccumulate(had[at], scores.decimal, scores.integer))

\* The loop of summarize_decimal_integer from row i on: by_id at its end, or
\* the exception the Score Deriver or a sum raises.
RECURSIVE DecIntLoop(_, _, _, _, _, _, _)
DecIntLoop(rows, i, by_id, id_idx, primary_idx, secondary_idx, primary_is_decimal) ==
    LET Had(id_val) == WithEntry(by_id, id_val, NewDecIntEntry(id_val))
        Next(row) ==
            IF IsRaise(row) THEN row
            ELSE DecIntLoop(rows, i + 1, row.by_id, id_idx, primary_idx, secondary_idx,
                            primary_is_decimal)
    IN  IF i > Len(rows) THEN [k |-> "ok", by_id |-> by_id]
        ELSE IF SkipsRow(rows[i], id_idx)
        THEN DecIntLoop(rows, i + 1, by_id, id_idx, primary_idx, secondary_idx, primary_is_decimal)
        ELSE Next(DecIntRow(Had(IdOf(rows[i], id_idx)),
                            EntryOf(Had(IdOf(rows[i], id_idx)), IdOf(rows[i], id_idx)),
                            _decimal_and_integer_scores(CellValue(rows[i], primary_idx),
                                                        CellValue(rows[i], secondary_idx),
                                                        primary_is_decimal)))

\* round(q, 4) of a quotient q, or the exception that the division raised.
RoundedQuotient(q) == IF IsRaise(q) THEN q ELSE Round4(q)

\* The record summarize_decimal_integer emits for an entry, or the
\* OverflowError of integer_sum / integer_n for a quotient too large for a
\* float.
DecIntRecord(rec) ==
    LET Emitted(decimal_sum, decimal_mean, integer_mean) ==
            IF IsRaise(integer_mean) THEN integer_mean
            ELSE [id |-> rec.id,
                  count |-> rec.count,
                  decimal_sum |-> decimal_sum,
                  decimal_mean |-> decimal_mean,
                  integer_sum |-> IF rec.integer_n # 0 THEN rec.integer_sum ELSE None,
                  integer_mean |-> integer_mean]
    IN  Emitted(IF rec.decimal_n # 0 THEN Round4(rec.decimal_sum) ELSE None,
                IF rec.decimal_n # 0 THEN Round4(NumDiv(rec.decimal_sum, rec.decimal_n)) ELSE None,
                IF rec.integer_n # 0 THEN RoundedQuotient(NumDiv(rec.integer_sum, rec.integer_n))
                ELSE None)

\* sorted(by_id.keys(), key=lambda x: (x.isdigit(), x.zfill(10) if
\* x.isdigit() else x))
SortedIds(by_id) ==
    SortedByKey(Keys(by_id), [i \in 1..Len(by_id) |-> IdSortKey(by_id[i].id)])

\* The records of by_id in the order of the sorted keys
\* ([k |-> "ok", recs |-> ...]), or the exception that the first of them to
\* raise one raises.
EmitDecInt(by_id) ==
    LET Raised(rec) == "id" \notin DOMAIN rec
        Checked(recs) ==
            IF \E i \in 1..Len(recs) : Raised(recs[i])
            THEN recs[CHOOSE i \in 1..Len(recs) :
                        Raised(recs[i]) /\ \A j \in 1..(i - 1) : ~Raised(recs[j])]
            ELSE [k |-> "ok", recs |-> recs]
    IN  Checked([i \in 1..Len(by_id) |->
                    DecIntRecord(by_id[EntryOf(by_id, SortedIds(by_id)[i])])])

\* A secondary_column that is None or "" is not looked up.
SecondaryIdx(headers, secondary_column) ==
    IF secondary_column = NoneStr \/ secondary_column = <<>> THEN 0
    ELSE IndexOf(headers, secondary_column)

\* The records of by_id at the end of the loop, or the exception the loop
\* raised.
DecIntResult(loop) == IF IsRaise(loop) THEN loop ELSE EmitDecInt(loop.by_id)

\* summarize_decimal_integer from the outcome of _column_has_decimals on: the
\* loop with that flag, then the records; or the exception raised.
DecIntWith(rows, id_idx, primary_idx, secondary_idx, primary_is_decimal) ==
    IF IsRaise(primary_is_decimal) THEN primary_is_decimal
    ELSE DecIntResult(DecIntLoop(rows, 1, <<>>, id_idx, primary_idx, secondary_idx,
                                 primary_is_decimal.v))

\* The list returned ([k |-> "ok", recs |-> ...]) or the exception raised.
summarize_decimal_integer(headers, rows, id_column, primary_column, secondary_column) ==
    IF IndexOf(headers, id_column) = 0 \/ IndexOf(headers, primary_column) = 0
    THEN [k |-> "ok", recs |-> <<>>]
    ELSE DecIntWith(rows, IndexOf(headers, id_column), IndexOf(headers, primary_column),
                    SecondaryIdx(headers, secondary_column),
                    _column_has_decimals(rows, IndexOf(headers, primary_column)))

\* score_idxs: the positions of the headers named in score_columns.
ScoreIdxs(headers, score_columns) ==
    SelectSeq([i \in 1..Len(headers) |-> i],
              LAMBDA i : \E j \in 1..Len(score_columns) : score_columns[j] = headers[i])

\* The keys of the "sums" and "values" dicts of an entry.
ScoreNames(headers, score_idxs) == {headers[score_idxs[c]] : c \in 1..Len(score_idxs)}

\* The entry a defaultdict of summarize_by_id makes for a new key.
NewByIdEntry(id_val, names) ==
    [id |-> id_val, count |-> 0, sums |-> [h \in names |-> PyZero(FALSE)], n |-> [h \in names |-> 0]]

\* if v is not None: sums[col_name] += v; values[col_name].append(v).  The
\* entry after it, or the OverflowError of the sum for an int too large for
\* a float.
ByIdAdd(rec, col_name, v) ==
    LET Summed(sum) ==
            IF IsRaise(sum) THEN sum
            ELSE [k |-> "ok",
                  rec |-> [rec EXCEPT !.sums[col_name] = sum, !.n[col_name] = @ + 1]]
    IN  IF v = None THEN [k |-> "ok", rec |-> rec]
        ELSE Summed(NumAdd(rec.sums[col_name], v))

\* The inner loop of summarize_by_id over score_idxs from position c on: the
\* entry after it, or the exception a sum raises.
RECURSIVE ByIdAccumulate(_, _, _, _, _)
ByIdAccumulate(rec, row, headers, score_idxs, c) ==
    LET Next(added) ==
            IF IsRaise(added) THEN added
            ELSE ByIdAccumulate(added.rec, row, headers, score_idxs, c + 1)
    IN  IF c > Len(score_idxs) THEN [k |-> "ok", rec |-> rec]
        ELSE Next(ByIdAdd(rec, headers[score_idxs[c]], CellValue(row, score_idxs[c])))

\* The body of the loop of summarize_by_id on a row with an identifier:
\* by_id[id_val]["count"] += 1, then the inner loop, on the entry of had at
\* position at; by_id after it ([k |-> "ok", by_id |-> ...]), or the
\* exception a sum raises.
ByIdRow(had, at, row, headers, score_idxs) ==
    LET Stored(added) ==
            IF IsRaise(added) THEN added
            ELSE [k |-> "ok", by_id |-> [had EXCEPT ![at] = added.rec]]
    IN  Stored(ByIdAccumulate([had[at] EXCEPT !.count = @ + 1], row, headers, score_idxs, 1))

\* The loop of summarize_by_id from row i on: by_id at its end, or the
\* exception a sum raises.
RECURSIVE ByIdLoop(_, _, _, _, _, _)
ByIdLoop(rows, i, by_id, headers, id_idx, score_idxs) ==
    LET Had(id_val) ==
            WithEntry(by_id, id_val, NewByIdEntry(id_val, ScoreNames(headers, score_idxs)))
        Next(row) ==
            IF IsRaise(row) THEN row
            ELSE ByIdLoop(rows, i + 1, row.by_id, headers, id_idx, score_idxs)
    IN  IF i > Len(rows) THEN [k |-> "ok", by_id |-> by_id]
        ELSE IF SkipsRow(rows[i], id_idx)
        THEN ByIdLoop(rows, i + 1, by_id, headers, id_idx, score_idxs)
        ELSE Next(ByIdRow(Had(IdOf(rows[i], id_idx)),
                          EntryOf(Had(IdOf(rows[i], id_idx)), IdOf(rows[i], id_idx)),
                          rows[i], headers, score_idxs))

\* What summarize_by_id emits for a requested column of an entry: its
\* rounded sum s over n values, and its rounded mean or None.
ByIdColumn(col_name, s, n) ==
    [name |-> col_name,
     sum |-> Round4(s),
     mean |-> IF n # 0 THEN Round4(NumDiv(s, n)) ELSE None]

\* The record summarize_by_id emits for an entry.
ByIdRecord(rec, score_columns) ==
    [id |-> rec.id,
     count |-> rec.count,
     cols |-> [j \in 1..Len(score_columns) |->
                ByIdColumn(score_columns[j], rec.sums[score_columns[j]], rec.n[score_columns[j]])]]

\* The records of by_id in the order of the sorted keys, or the KeyError
\* that rec["sums"][col_name] raises for a requested column that is none of
\* names, which are the columns the headers have.
EmitById(by_id, names, score_columns) ==
    IF by_id # <<>> /\ \E j \in 1..Len(score_columns) : score_columns[j] \notin names
    THEN KeyError
    ELSE [k |-> "ok",
          recs |-> [i \in 1..Len(by_id) |->
                        ByIdRecord(by_id[EntryOf(by_id, SortedIds(by_id)[i])], score_columns)]]

\* The records of by_id at the end of the loop, or the exception the loop
\* raised.
ByIdResult(loop, names, score_columns) ==
    IF IsRaise(loop) THEN loop ELSE EmitById(loop.by_id, names, score_columns)

\* The list returned ([k |-> "ok", recs |-> ...]), the exception a sum
\* raises, or the KeyError for a requested column the headers lack.
summarize_by_id(headers, rows, id_column, score_columns) ==
    IF IndexOf(headers, id_column) = 0 THEN [k |-> "ok", recs |-> <<>>]
    ELSE IF ScoreIdxs(headers, score_columns) = <<>> THEN [k |-> "ok", recs |-> <<>>]
    ELSE ByIdResult(ByIdLoop(rows, 1, <<>>, headers, IndexOf(headers, id_column),
                             ScoreIdxs(headers, score_columns)),
                    ScoreNames(headers, ScoreIdxs(headers, score_columns)), score_columns)

\* The dict get_shots_for_start_nr appends for row idx (counted from 1 here;
\* "index" is the position counted from 0, as enumerate gives it), or the
\* exception that the Score Deriver raised; strs are str(primary_val) and
\* str(secondary_val), each "" for None.
ShotOf(idx, row, time_idx, primary_val, secondary_val, scores) ==
    LET Made(strs, decimal) ==
            [index |-> idx - 1,
             Time |-> IF HasCell(row, time_idx) THEN Strip(row[time_idx]) ELSE <<>>,
             Primary |-> strs[1],
             Secondary |-> strs[2],
             Decimal |-> decimal,
             Integer |-> scores.integer]
    IN  IF IsRaise(scores) THEN scores
        ELSE Made([j \in 1..2 |->
                    IF <<primary_val, secondary_val>>[j] # None
                    THEN NumStr(<<primary_val, secondary_val>>[j]) ELSE <<>>],
                  IF scores.decimal # None THEN Round4(scores.decimal) ELSE None)

\* The body of the loop of get_shots_for_start_nr on a row of the
\* identifier, from its parsed values on: the shot, or the exception the
\* Score Deriver raises.
ScoredShot(idx, row, time_idx, primary_val, secondary_val, primary_is_decimal) ==
    ShotOf(idx, row, time_idx, primary_val, secondary_val,
           _decimal_and_integer_scores(primary_val, secondary_val, primary_is_decimal))

\* The loop of get_shots_for_start_nr from row idx on: the shots in row
\* order, or the exception the Score Deriver raises.
RECURSIVE ShotsLoop(_, _, _, _, _, _, _, _, _)
ShotsLoop(rows, idx, shots, id_idx, primary_idx, secondary_idx, time_idx, primary_is_decimal, start_nr_val) ==
    LET Next(shot) ==
            IF "index" \notin DOMAIN shot THEN shot
            ELSE ShotsLoop(rows, idx + 1, Append(shots, shot), id_idx, primary_idx,
                           secondary_idx, time_idx, primary_is_decimal, start_nr_val)
    IN  IF idx > Len(rows) THEN [k |-> "ok", shots |-> shots]
        ELSE IF ~HasCell(rows[idx], id_idx) \/ IdOf(rows[idx], id_idx) # start_nr_val
        THEN ShotsLoop(rows, idx + 1, shots, id_idx, primary_idx, secondary_idx, time_idx,
                       primary_is_decimal, start_nr_val)
        ELSE Next(ScoredShot(idx, rows[idx], time_idx, CellValue(rows[idx], primary_idx),
                             CellValue(rows[idx], secondary_idx), primary_is_decimal))

\* The shots at the end of the loop, sorted, or the exception the loop
\* raised.
ShotsResult(loop) ==
    IF IsRaise(loop) THEN loop ELSE [k |-> "ok", shots |-> SortedShots(loop.shots)]

\* get_shots_for_start_nr from the outcome of _column_has_decimals on: the
\* loop with that flag, then the sort; or the exception raised.
ShotsWith(rows, id_idx, primary_idx, secondary_idx, time_idx, primary_is_decimal, start_nr_val) ==
    IF IsRaise(primary_is_decimal) THEN primary_is_decimal
    ELSE ShotsResult(ShotsLoop(rows, 1, <<>>, id_idx, primary_idx, secondary_idx, time_idx,
                               primary_is_decimal.v, Strip(start_nr_val)))

\* The sorted list returned ([k |-> "ok", shots |-> ...]) or the exception
\* raised.
get_shots_for_start_nr(headers, rows, id_column, primary_column, secondary_column, time_column, start_nr_val) ==
    IF IndexOf(headers, id_column) = 0 \/ IndexOf(headers, primary_column) = 0
    THEN [k |-> "ok", shots |-> <<>>]
    ELSE ShotsWith(rows, IndexOf(headers, id_column), IndexOf(headers, primary_column),
                   SecondaryIdx(headers, secondary_column), IndexOf(headers, time_column),
                   _column_has_decimals(rows, IndexOf(headers, primary_column)), start_nr_val)

(***************************************************************************)
(* sius_csv.py: loading an upload.  csv.reader is the parser of the csv    *)
(* module with the dialect the program leaves at its defaults: the quote   *)
(* character is '"', a doubled quote inside a quoted field stands for one, *)
(* there is no escape character, and the parser is not strict.  It is fed  *)
(* the lines of its input character by character and told of the end of   *)
(* each line.                                                              *)
(***************************************************************************)

\* s.find(c), counted from 1; 0 when c is not in s.
Find(s, c) ==
    IF Contains(s, c)
    THEN CHOOSE i \in 1..Len(s) : s[i] = c /\ \A j \in 1..(i - 1) : s[j] # c
    ELSE 0

\* s.split(sep) for a one-character separator.
RECURSIVE SplitOn(_, _)
SplitOn(s, sep) ==
    IF Find(s, sep) = 0 THEN <<s>>
    ELSE <<Before(s, Find(s, sep))>> \o SplitOn(After(s, Find(s, sep)), sep)

\* csv.field_size_limit(), which the program does not change.
FieldSizeLimit == 131072

\* _csv.Error with its message.
CsvError(msg) == [k |-> "Error", msg |-> msg]

\* What the parser is given at the end of a line.
EOL == "EOL"

\* The parser as a record begins: no field read, no character of one.
ParseReset == [state |-> "START_RECORD", field |-> <<>>, fields |-> <<>>]

\* The parser after the character c, or the end of a line, in state p: the
\* state machine of the csv module for the default dialect.  A character
\* that would make a field longer than the limit, and one that follows a
\* line end inside a line, end the parse with an error.
parse_process_char(p, c, delim) ==
    LET Failed(msg) == [state |-> "ERROR", field |-> <<>>, fields |-> <<>>, msg |-> msg]
        AddChar(state) ==
            IF Len(p.field) >= FieldSizeLimit
            THEN Failed("field larger than field limit (131072)")
            ELSE [p EXCEPT !.field = Append(@, c), !.state = state]
        SaveField(state) ==
            [p EXCEPT !.fields = Append(@, p.field), !.field = <<>>, !.state = state]
        AfterEnd == IF c = EOL THEN "START_RECORD" ELSE "EAT_CRNL"
        StartField ==
            IF c \in {"\n", "\r", EOL} THEN SaveField(AfterEnd)
            ELSE IF c = "\"" THEN [p EXCEPT !.state = "IN_QUOTED_FIELD"]
            ELSE IF c = delim THEN SaveField("START_FIELD")
            ELSE AddChar("IN_FIELD")
    IN  CASE p.state = "START_RECORD" ->
                IF c = EOL THEN p
                ELSE IF c \in {"\n", "\r"} THEN [p EXCEPT !.state = "EAT_CRNL"]
                ELSE StartField
          [] p.state = "START_FIELD" -> StartField
          [] p.state = "IN_FIELD" ->
                IF c \in {"\n", "\r", EOL} THEN SaveField(AfterEnd)
                ELSE IF c = delim THEN SaveField("START_FIELD")
                ELSE AddChar("IN_FIELD")
          [] p.state = "IN_QUOTED_FIELD" ->
                IF c = EOL THEN p
                ELSE IF c = "\"" THEN [p EXCEPT !.state = "QUOTE_IN_QUOTED_FIELD"]
                ELSE AddChar("IN_QUOTED_FIELD")
          [] p.state = "QUOTE_IN_QUOTED_FIELD" ->
                IF c = "\"" THEN AddChar("IN_QUOTED_FIELD")
                ELSE IF c = delim THEN SaveField("START_FIELD")
                ELSE IF c \in {"\n", "\r", EOL} THEN SaveField(AfterEnd)
                ELSE AddChar("IN_FIELD")
          [] p.state = "EAT_CRNL" ->
                IF c \in {"\n", "\r"} THEN p
                ELSE IF c = EOL THEN [p EXCEPT !.state = "START_RECORD"]
                ELSE Failed("new-line character seen in unquoted field - do you need to open the file in universal-newline mode?")
          [] OTHER -> p

\* The parser after the characters of a line from the i-th on and the end
\* of the line.
RECURSIVE ParseLine(_, _, _, _)
ParseLine(p, line, i, delim) ==
    IF p.state = "ERROR" THEN p
    ELSE IF i > Len(line) THEN parse_process_char(p, EOL, delim)
    ELSE ParseLine(parse_process_char(p, line[i], delim), line, i + 1, delim)

\* The records read from the i-th line on, after rows, with the parser in
\* state p: a record ends with the line that leaves the parser at the start
\* of a record, a quoted field goes on into the next line, and the end of
\* the input ends a record inside a quoted field.  The error of the parser
\* is raised.
RECURSIVE ReadRecords(_, _, _, _, _)
ReadRecords(lines, i, p, rows, delim) ==
    LET Line(q) ==
            IF q.state = "START_RECORD"
            THEN ReadRecords(lines, i + 1, ParseReset, Append(rows, q.fields), delim)
            ELSE ReadRecords(lines, i + 1, q, rows, delim)
    IN  IF p.state = "ERROR" THEN CsvError(p.msg)
        ELSE IF i > Len(lines)
        THEN IF p.field # <<>> \/ p.state = "IN_QUOTED_FIELD"
             THEN [k |-> "ok", rows |-> Append(rows, Append(p.fields, p.field))]
             ELSE [k |-> "ok", rows |-> rows]
        ELSE Line(ParseLine(p, lines[i], 1, delim))

\* The lines of a text that end at the given positions, each with its line
\* end.
LinesEndingAt(text, ends) ==
    [n \in 1..Len(ends) |-> SubSeq(text, IF n = 1 THEN 1 ELSE ends[n - 1] + 1, ends[n])]

\* The lines io.StringIO(text) iterates: a line ends with its "\n" (a "\r"
\* ends none), the last one with the text.
StringIO(text) ==
    LinesEndingAt(text, SelectSeq([i \in 1..Len(text) |-> i],
                                  LAMBDA i : text[i] = "\n" \/ i = Len(text)))

\* The lines a file opened with newline="" iterates: a line ends with
\* "\n", "\r" or "\r\n", which it keeps, the last one with the text.
OpenedLines(text) ==
    LinesEndingAt(text, SelectSeq([i \in 1..Len(text) |-> i], LAMBDA i :
        \/ text[i] = "\n"
        \/ text[i] = "\r" /\ ~(i < Len(text) /\ text[i + 1] = "\n")
        \/ i = Len(text)))

\* list(csv.reader(lines, delimiter=delim)): [k |-> "ok"] with the rows, an
\* empty line being the row [], or the error raised.
csv_reader(lines, delim) == ReadRecords(lines, 1, ParseReset, <<>>, delim)

\* (data_rows, delimiter_used) for delimiter=None, as [k |-> "ok"] with
\* them, or the error csv.reader raises.
load_data_rows_from_string(content) ==
    LET Parsed(read, delim) ==
            IF read.k # "ok" THEN read ELSE [k |-> "ok", rows |-> read.rows, delim |-> delim]
        Read(c, delim) == Parsed(csv_reader(StringIO(c), delim), delim)
        Stripped(c) ==
            IF c = <<>> THEN [k |-> "ok", rows |-> <<>>, delim |-> DEFAULT_DELIMITER]
            ELSE Read(c, _guess_delimiter_from_first_line(SplitOn(c, "\n")[1]))
    IN  Stripped(Strip(content))

\* field_names[i] if i < len(field_names) else f"Column {i + 1}", for the
\* positions counted from 1 here.
headers_from_field_names(num_columns, field_names) ==
    [i \in 1..num_columns |->
        IF i <= Len(field_names) THEN field_names[i]
        ELSE <<"C","o","l","u","m","n"," ">> \o NatStr(i)]

(***************************************************************************)
(* sius_fields.py                                                          *)
(***************************************************************************)

START_NR == <<"S","t","a","r","t"," ","N","R">>
PRIMARY_SCORE == <<"P","r","i","m","a","r","y"," ","s","c","o","r","e">>
SECONDARY_SCORE == <<"S","e","c","o","n","d","a","r","y"," ","s","c","o","r","e">>

_normalize(name) == SelectSeq(Lower(Strip(name)), LAMBDA c : c \notin {" ", "_", "-"})

\* SIUSFields.txt when it exists and open() fails on it: a directory, or a
\* file the server may not read.
Unreadable == <<"OSError">>

\* The names load_field_names returns, as [k |-> "ok"] with them: the
\* stripped non-blank cells, header row excluded, of the first column whose
\* stripped header is "field" or "fields" once normalized, or of the first
\* column when there is none; [] when the file is missing, has no row or
\* begins with an empty line.  The file is read with newline="", and the
\* error of open() or of csv.reader is raised.
load_field_names(file) ==
    LET Names(kept, idx) == [i \in 1..Len(kept) |-> Strip(kept[i][idx])]
        Column(rest, idx) ==
            Names(SelectSeq(rest, LAMBDA row : HasCell(row, idx) /\ Strip(row[idx]) # <<>>), idx)
        IsField(h) == _normalize(Strip(h)) \in { <<"f","i","e","l","d">>, <<"f","i","e","l","d","s">> }
        FieldColIdx(headers) ==
            IF \E i \in 1..Len(headers) : IsField(headers[i])
            THEN CHOOSE i \in 1..Len(headers) :
                    IsField(headers[i]) /\ \A j \in 1..(i - 1) : ~IsField(headers[j])
            ELSE 1
        Loaded(read) ==
            IF read.k # "ok" THEN read
            ELSE IF read.rows = <<>> THEN [k |-> "ok", names |-> <<>>]
            ELSE IF read.rows[1] = <<>> THEN [k |-> "ok", names |-> <<>>]
            ELSE [k |-> "ok", names |-> Column(Tail(read.rows), FieldColIdx(read.rows[1]))]
    IN  IF file = NoneStr THEN [k |-> "ok", names |-> <<>>]
        ELSE IF file = Unreadable THEN OSError
        ELSE Loaded(csv_reader(OpenedLines(file), "\t"))

START_NR_ALIASES ==
    { <<"s","t","a","r","t","n","r">>, <<"s","t","a","r","t","n","u","m","b","e","r">>,
      <<"s","t","a","r","t","_","n","o">>, <<"s","t","a","r","t","n","o">> }

PRIMARY_SCORE_ALIASES ==
    { <<"p","r","i","m","a","r","y","s","c","o","r","e">>,
      <<"d","e","c","i","m","a","l","s","c","o","r","e">>,
      <<"d","e","c","i","m","a","l"," ","s","c","o","r","e">>,
      <<"p","r","i","m","a","r","y"," ","s","c","o","r","e">> }

SECONDARY_SCORE_ALIASES ==
    { <<"s","e","c","o","n","d","a","r","y","s","c","o","r","e">>,
      <<"s","e","c","o","n","d","a","r","y"," ","s","c","o","r","e">> }

\* The first CSV header equal to the field after normalisation, else the
\* first one that is an alias of the field, else None.
match_csv_header_to_field(csv_headers, target_field) ==
    LET First(Test(_)) ==
            IF \E i \in 1..Len(csv_headers) : Test(csv_headers[i])
            THEN csv_headers[CHOOSE i \in 1..Len(csv_headers) :
                    Test(csv_headers[i]) /\ \A j \in 1..(i - 1) : ~Test(csv_headers[j])]
            ELSE NoneStr
        IsPrimaryAlias(hn) ==
            \/ hn \in PRIMARY_SCORE_ALIASES
            \/ ContainsSub(hn, <<"d","e","c","i","m","a","l">>) /\ ContainsSub(hn, <<"s","c","o","r","e">>)
        Alias(target_norm) ==
            IF target_norm = _normalize(START_NR)
            THEN First(LAMBDA h : _normalize(h) \in START_NR_ALIASES)
            ELSE IF target_norm = _normalize(PRIMARY_SCORE)
            THEN First(LAMBDA h : IsPrimaryAlias(_normalize(h)))
            ELSE IF target_norm = _normalize(SECONDARY_SCORE)
            THEN First(LAMBDA h : _normalize(h) \in SECONDARY_SCORE_ALIASES)
            ELSE NoneStr
        Match(target_norm, exact) == IF exact # NoneStr THEN exact ELSE Alias(target_norm)
        For(target_norm) == Match(target_norm, First(LAMBDA h : _normalize(h) = target_norm))
    IN  For(_normalize(target_field))

\* {"start_nr", "primary_score", "secondary_score"}; without a Start NR match
\* the first column is the identifier.
suggest_columns(csv_headers) ==
    LET Out(start_nr, primary_score, secondary_score) ==
            [start_nr |-> IF (start_nr = NoneStr \/ start_nr = <<>>) /\ csv_headers # <<>>
                          THEN csv_headers[1]
                          ELSE start_nr,
             primary_score |-> primary_score,
             secondary_score |-> secondary_score]
    IN  Out(match_csv_header_to_field(csv_headers, START_NR),
            match_csv_header_to_field(csv_headers, PRIMARY_SCORE),
            match_csv_header_to_field(csv_headers, SECONDARY_SCORE))

(***************************************************************************)
(* app_web.py: the per-tab store and the request handlers.  A handler's    *)
(* outcome is its status, its JSON body, and the local rows it passed to   *)
(* the aggregator or shot selector with the identifier column it named.    *)
(***************************************************************************)

TIME == <<"T","i","m","e">>
RELAY == <<"R","e","l","a","y">>

_TAB_TTL_SECONDS == 24 * 60 * 60

_column_index(headers, name) == IndexOf(headers, name)

\* The key of _unique_values: (not x.isdigit(), x.zfill(10) if x.isdigit()
\* else x).
UniqueSortKey(x) == <<~IsDigit(x), IF IsDigit(x) THEN ZFill(x, 10) ELSE x>>

\* vals, the set the items of a sequence are added to.
Distinct(s) == { s[i] : i \in 1..Len(s) }

\* The orders in which a set of str can iterate: the order follows the
\* hashes of the items, which change from one process to the next
\* (PYTHONHASHSEED), so each order is one a call can meet.
RECURSIVE IterationOrders(_)
IterationOrders(vals) ==
    IF vals = {} THEN { <<>> }
    ELSE UNION { { <<x>> \o rest : rest \in IterationOrders(vals \ {x}) } : x \in vals }

\* The lists _unique_values can return: the stripped non-blank cells of a
\* column, sorted from the set they were added to.  sorted() is stable, so
\* values of equal keys ("1" and "01") stand as the set iterates.
_unique_values(rows, col_idx) ==
    LET Cells(kept) == [i \in 1..Len(kept) |-> Strip(kept[i][col_idx])]
        Sorted(vals) == SortedByKey(vals, [i \in 1..Len(vals) |-> UniqueSortKey(vals[i])])
    IN  { Sorted(vals) : vals \in IterationOrders(Distinct(Cells(SelectSeq(rows, LAMBDA row :
            HasCell(row, col_idx) /\ Strip(row[col_idx]) # <<>>)))) }

\* dict, as _tab_store is one (CPython 3.11): the entries stand in the
\* order of their insertion, a deleted one leaves a hole, and usable is the
\* number of entries that can still be added before the table is rebuilt.
Hole == [live |-> FALSE]

\* {}
EmptyDict == [entries |-> <<>>, usable |-> 0]

\* len(d)
DictLen(d) == Len(SelectSeq(d.entries, LAMBDA e : e.live))

\* The keys of d.
DictKeys(d) == { d.entries[i].key : i \in { j \in 1..Len(d.entries) : d.entries[j].live } }

\* The position of the entry of a key of d.
Slot(d, key) == CHOOSE i \in 1..Len(d.entries) : d.entries[i].live /\ d.entries[i].key = key

\* d[key], for a key of d.
DictGet(d, key) == d.entries[Slot(d, key)].value

\* d when a new key finds no room: the table is rebuilt for three times its
\* entries, without the holes.  The size is the power of two above
\* ((3 * len(d) | 8) - 1) | 7, and two thirds of it can be used.
Resized(d) ==
    LET Or8(n) == IF (n \div 8) % 2 = 1 THEN n ELSE n + 8
        Or7(n) == (n \div 8) * 8 + 7
        Above(x) == CHOOSE size \in { 2 ^ e : e \in 3..30 } : size > x /\ size \div 2 <= x
        Rebuilt(live) ==
            [entries |-> live,
             usable |-> (2 * Above(Or7(Or8(3 * Len(live)) - 1))) \div 3 - Len(live)]
    IN  Rebuilt(SelectSeq(d.entries, LAMBDA e : e.live))

\* d after d[key] = value: the value of a key of d is replaced where it
\* stands, a new key is added after the last entry.
DictSet(d, key, value) ==
    LET Added(r) ==
            [entries |-> Append(r.entries, [live |-> TRUE, key |-> key, value |-> value]),
             usable |-> r.usable - 1]
    IN  IF key \in DictKeys(d) THEN [d EXCEPT !.entries[Slot(d, key)].value = value]
        ELSE Added(IF d.usable <= 0 THEN Resized(d) ELSE d)

\* d after del d[key], for a key of d.
DictDel(d, key) == [d EXCEPT !.entries[Slot(d, key)] = Hole]

\* iter(d.items()): the iterator remembers len(d), counts the items it has
\* still to give and stands before the first entry.
DictIter(d) == [used |-> DictLen(d), pos |-> 0, len |-> DictLen(d)]

\* No iterator.
NoIter == [used |-> 0, pos |-> 0, len |-> 0]

\* next(it) on the dict as it is now: RuntimeError when len(d) has changed,
\* else the next entry that is no hole ([k |-> "item"], with the iterator
\* moved behind it), StopIteration when there is none, and RuntimeError
\* when there is one after the iterator has given all it counted.
DictNext(d, it) ==
    LET Item(i) ==
            [k |-> "item", key |-> d.entries[i].key, value |-> d.entries[i].value,
             it |-> [it EXCEPT !.pos = i, !.len = @ - 1]]
        First(from) ==
            IF from = {} THEN [k |-> "StopIteration"]
            ELSE IF it.len = 0 THEN RuntimeError("dictionary keys changed during iteration")
            ELSE Item(CHOOSE i \in from : \A j \in from : i <= j)
    IN  IF it.used # DictLen(d) THEN RuntimeError("dictionary changed size during iteration")
        ELSE First({ i \in (it.pos + 1)..Len(d.entries) : d.entries[i].live })

\* The locals of a handler that has entered _get_tab_store for the tab at
\* time t (lines 57 and 58): its place pc, the iterator of the list
\* comprehension, the list expired and the index of the loop over it, and
\* the headers and rows that _get_tab_store returns.
Entered(op, tab_id, t) ==
    [op |-> op, pc |-> "items", tab_id |-> tab_id, now |-> t, it |-> NoIter,
     expired |-> <<>>, i |-> 1, headers |-> <<>>, rows |-> <<>>, raised |-> None]

\* One step of _get_tab_store for the handler with locals q on the store:
\* what it does between two points at which another thread can run, which
\* are the calls and the backward jumps of its loops, as the store and the
\* locals after it.
\*   items   _tab_store.items() is made and iterated from its start
\*   next    one turn of the list comprehension: the next item, and its
\*           key appended to expired when now - last_used is more than 24
\*           hours; RuntimeError from the iterator; at the end of the
\*           items the list is returned and the step goes on, with the
\*           first del when a key has expired, and with lines 62 to 66
\*           when none has
\*   del     del _tab_store[tid] for the next tid of expired; KeyError when
\*           the key is gone
\*   test    after the last del, lines 62 to 66: the empty table is
\*           inserted when tab_id is not in _tab_store, last_used is set,
\*           and the headers and rows are read
\* After lines 62 to 66 the place is "return"; an exception leaves the
\* place "raise".
_get_tab_store(store, q) ==
    LET To(d, locals) == [store |-> d, q |-> locals]
        Raise(locals, e) == To(store, [locals EXCEPT !.pc = "raise", !.raised = e])
        Touched(d) ==
            DictSet(d, q.tab_id, [DictGet(d, q.tab_id) EXCEPT !.last_used = q.now])
        Read(d, locals) ==
            To(d, [locals EXCEPT !.pc = "return",
                                 !.headers = DictGet(d, q.tab_id).headers,
                                 !.rows = DictGet(d, q.tab_id).rows])
        Rest(locals) ==
            Read(Touched(IF q.tab_id \in DictKeys(store) THEN store
                         ELSE DictSet(store, q.tab_id,
                                      [headers |-> <<>>, rows |-> <<>>, last_used |-> q.now])),
                 locals)
        Del(locals) ==
            IF locals.expired[locals.i] \notin DictKeys(store) THEN Raise(locals, KeyError)
            ELSE To(DictDel(store, locals.expired[locals.i]),
                    [locals EXCEPT !.i = @ + 1,
                                   !.pc = IF locals.i = Len(locals.expired)
                                          THEN "test" ELSE "del"])
        Returned(locals) == IF locals.expired = <<>> THEN Rest(locals) ELSE Del(locals)
        Next(n) ==
            IF n.k = "RuntimeError" THEN Raise(q, n)
            ELSE IF n.k = "StopIteration" THEN Returned([q EXCEPT !.it = NoIter])
            ELSE To(store, [q EXCEPT !.it = n.it,
                                     !.expired = IF q.now - n.value.last_used > _TAB_TTL_SECONDS
                                                 THEN Append(@, n.key) ELSE @])
    IN  CASE q.pc = "items" -> To(store, [q EXCEPT !.it = DictIter(store), !.pc = "next"])
          [] q.pc = "next" -> Next(DictNext(store, q.it))
          [] q.pc = "del" -> Del(q)
          [] q.pc = "test" -> Rest(q)
          [] OTHER -> To(store, q)

\* One step of _set_tab_store for the upload with locals q on the store at
\* the time t: what it does between two points at which another request can
\* reach the store or the clock can move.
\*   time  time.time() is called for last_used (line 71)
\*   set   _tab_store[tab_id] = the table with the time taken
\* After set the place is "return".
_set_tab_store(store, q, t) ==
    CASE q.pc = "time" -> [store |-> store, q |-> [q EXCEPT !.pc = "set", !.last_used = t]]
      [] q.pc = "set" ->
            [store |-> DictSet(store, q.tab_id,
                               [headers |-> q.headers, rows |-> q.rows,
                                last_used |-> q.last_used]),
             q |-> [q EXCEPT !.pc = "return"]]
      [] OTHER -> [store |-> store, q |-> q]

\* An optional JSON list: absent (None), or given with its items.
Absent == [given |-> FALSE]
Given(items) == [given |-> TRUE, items |-> items]

\* A 400 answer given before any row is passed on.
Error(msg) ==
    [status |-> 400, body |-> [error |-> msg], called |-> FALSE, rows |-> <<>>,
     id_column |-> NoneStr]

\* The answer to a request whose handler an exception leaves: Flask answers
\* for it with status 500 and its own page, which says nothing of e.
InternalServerError(e) ==
    [status |-> 500, body |-> [page |-> "Internal Server Error"], called |-> FALSE,
     rows |-> <<>>, id_column |-> NoneStr]

\* The answer after the call of the aggregator or shot selector on the rows:
\* the body made of its result, or a 400 with str(e) of the exception raised.
Answer(result, body, rows, id_column) ==
    LET Message(e) ==
            IF "msg" \in DOMAIN e THEN e.msg
            ELSE IF e.k = "OverflowError" THEN "cannot convert float infinity to integer"
            ELSE IF e.k = "ValueError" THEN "cannot convert float NaN to integer"
            ELSE e.k
    IN  IF IsRaise(result)
        THEN [status |-> 400, body |-> [error |-> Message(result)], called |-> TRUE,
              rows |-> rows, id_column |-> id_column]
        ELSE [status |-> 200, body |-> body, called |-> TRUE, rows |-> rows,
              id_column |-> id_column]

\* The relay filter of summary, shots and target_data.
RelayFiltered(headers, rows, relay_filter) ==
    LET Kept(relay_idx) ==
            SelectSeq(rows, LAMBDA r : HasCell(r, relay_idx) /\ Strip(r[relay_idx]) = relay_filter)
    IN  IF relay_filter # NoneStr /\ relay_filter # <<>> /\ _column_index(headers, RELAY) # 0
        THEN Kept(_column_index(headers, RELAY))
        ELSE rows

\* The allow-list filter of summary, shots and target_data: on the column
\* named "Start NR", and none when no header is "Start NR".
AllowFiltered(headers, rows, start_nrs_filter) ==
    LET Kept(start_nr_idx) ==
            SelectSeq(rows, LAMBDA r :
                /\ HasCell(r, start_nr_idx)
                /\ \E i \in 1..Len(start_nrs_filter.items) :
                        start_nrs_filter.items[i] = Strip(r[start_nr_idx]))
    IN  IF start_nrs_filter.given /\ _column_index(headers, START_NR) # 0
        THEN IF Len(start_nrs_filter.items) = 0 THEN <<>>
             ELSE Kept(_column_index(headers, START_NR))
        ELSE rows

\* [r for i, r in enumerate(rows) if i not in excluded_indices], for a
\* non-empty set of positions counted from 0.
Excluded(rows, excluded_indices) ==
    LET Left(kept) == [i \in 1..Len(kept) |-> rows[kept[i]]]
    IN  IF excluded_indices # {}
        THEN Left(SelectSeq([i \in 1..Len(rows) |-> i], LAMBDA i : (i - 1) \notin excluded_indices))
        ELSE rows

\* suggested["start_nr"] or _current_headers[0]
StartNrColumn(suggested, headers) ==
    IF suggested.start_nr = NoneStr \/ suggested.start_nr = <<>> THEN headers[1]
    ELSE suggested.start_nr

\* The rows of the summary body: "id" renamed to "Start NR" and put first.
SummaryBody(recs) ==
    [summary |-> [i \in 1..Len(recs) |->
                    [Start_NR |-> recs[i].id, count |-> recs[i].count,
                     decimal_sum |-> recs[i].decimal_sum, decimal_mean |-> recs[i].decimal_mean,
                     integer_sum |-> recs[i].integer_sum, integer_mean |-> recs[i].integer_mean]],
     columns |-> IF recs = <<>> THEN NoneStr
                 ELSE <<"Start NR", "count", "Decimal score_sum", "Decimal score_mean",
                        "Integer score_sum", "Integer score_mean">>]

\* The rows summary and target_data pass on: the table's after the relay
\* filter, the allow-list filter and the exclusion of the indices.
PassedRows(headers, rows, data) ==
    Excluded(AllowFiltered(headers, RelayFiltered(headers, rows, data.relay), data.start_nrs),
             data.excluded_indices)

\* summary() from the call of summarize_decimal_integer on the rows passed
\* on.
SummaryCall(headers, passed, id_column, suggested) ==
    LET Made(result) ==
            Answer(result, IF IsRaise(result) THEN result ELSE SummaryBody(result.recs),
                   passed, id_column)
    IN  Made(summarize_decimal_integer(headers, passed, id_column, suggested.primary_score,
                                       suggested.secondary_score))

\* summary() from the suggested columns on.
SummaryWith(headers, rows, data, suggested) ==
    IF suggested.primary_score = NoneStr \/ suggested.primary_score = <<>>
    THEN Error("No Primary score column in SIUSFields")
    ELSE SummaryCall(headers, PassedRows(headers, rows, data),
                     StartNrColumn(suggested, headers), suggested)

\* summary() on the tab's table and the request's JSON.
summary(headers, rows, data) ==
    IF headers = <<>> \/ rows = <<>> THEN Error("Upload a file first")
    ELSE SummaryWith(headers, rows, data, suggest_columns(headers))

\* The time column of shots(): "Time" if a header, else the first header
\* with "time" in its lower case, else "Time".
ShotsTimeColumn(headers) ==
    LET HasTime(h) == ContainsSub(Lower(h), <<"t","i","m","e">>)
    IN  IF \E i \in 1..Len(headers) : headers[i] = TIME THEN TIME
        ELSE IF \E i \in 1..Len(headers) : HasTime(headers[i])
        THEN headers[CHOOSE i \in 1..Len(headers) :
                HasTime(headers[i]) /\ \A j \in 1..(i - 1) : ~HasTime(headers[j])]
        ELSE TIME

\* shots() from the call of get_shots_for_start_nr on the rows passed on.
ShotsCall(headers, passed, id_column, suggested, start_nr) ==
    LET Made(result) ==
            Answer(result, IF IsRaise(result) THEN result ELSE [shots |-> result.shots],
                   passed, id_column)
    IN  Made(get_shots_for_start_nr(headers, passed, id_column, suggested.primary_score,
                                    suggested.secondary_score, ShotsTimeColumn(headers),
                                    start_nr))

\* shots() from the suggested columns on; it excludes no rows.
ShotsHandlerWith(headers, rows, data, suggested) ==
    IF suggested.primary_score = NoneStr \/ suggested.primary_score = <<>>
    THEN Error("No Primary score column in SIUSFields")
    ELSE IF data.start_nr = NoneStr \/ data.start_nr = <<>>
    THEN Error("start_nr required")
    ELSE ShotsCall(headers,
                   AllowFiltered(headers, RelayFiltered(headers, rows, data.relay),
                                 data.start_nrs),
                   StartNrColumn(suggested, headers), suggested, data.start_nr)

\* shots() on the tab's table and the request's JSON.
shots(headers, rows, data) ==
    IF headers = <<>> \/ rows = <<>> THEN Error("Upload a file first")
    ELSE ShotsHandlerWith(headers, rows, data, suggest_columns(headers))

\* float((val or "").strip()), None on ValueError.
_parse_float(val) ==
    LET Caught(f) == IF f = ValueError THEN None ELSE f
    IN  Caught(ParseFloat(Strip(val)))

\* _parse_float(row[idx]) if idx < len(row) else None, for the row at
\* row_idx if row_idx < len(rows), else None.
Coord(rows, row_idx, idx) ==
    IF row_idx <= Len(rows) /\ HasCell(rows[row_idx], idx)
    THEN _parse_float(rows[row_idx][idx])
    ELSE None

\* The shots of the target_data body: each with the X and Y of the row its
\* index names among the rows passed on.
TargetBody(shot_list, rows, x_idx, y_idx, start_nr_val) ==
    [start_nr |-> start_nr_val,
     shots |-> [i \in 1..Len(shot_list) |->
                 [shot_num |-> i,
                  x |-> Coord(rows, shot_list[i].index + 1, x_idx),
                  y |-> Coord(rows, shot_list[i].index + 1, y_idx),
                  decimal_score |-> shot_list[i].Decimal]]]

\* The answer of target_data() from what get_shots_for_start_nr returned or
\* raised on the rows passed on.
TargetAnswer(result, headers, passed, id_column, start_nr) ==
    Answer(result,
           IF IsRaise(result) THEN result
           ELSE TargetBody(result.shots, passed, _column_index(headers, <<"X">>),
                           _column_index(headers, <<"Y">>), start_nr),
           passed, id_column)

\* target_data() from the call of get_shots_for_start_nr on the rows passed
\* on.
TargetCall(headers, passed, id_column, suggested, start_nr) ==
    TargetAnswer(get_shots_for_start_nr(headers, passed, id_column, suggested.primary_score,
                                        suggested.secondary_score, TIME, start_nr),
                 headers, passed, id_column, start_nr)

\* target_data() from the suggested columns on.
TargetWith(headers, rows, data, suggested) ==
    IF suggested.primary_score = NoneStr \/ suggested.primary_score = <<>>
    THEN Error("No Primary score column in SIUSFields")
    ELSE IF data.start_nr = NoneStr \/ data.start_nr = <<>>
    THEN Error("start_nr required")
    ELSE IF _column_index(headers, <<"X">>) = 0 \/ _column_index(headers, <<"Y">>) = 0
    THEN Error("X and Y columns required for target view")
    ELSE TargetCall(headers, PassedRows(headers, rows, data),
                    StartNrColumn(suggested, headers), suggested, data.start_nr)

\* target_data() on the tab's table and the request's JSON.
target_data(headers, rows, data) ==
    IF headers = <<>> \/ rows = <<>> THEN Error("Upload a file first")
    ELSE TargetWith(headers, rows, data, suggest_columns(headers))

\* max(len(r) for r in rows)
MaxLen(rows) ==
    CHOOSE n \in {Len(rows[i]) : i \in 1..Len(rows)} : \A i \in 1..Len(rows) : Len(rows[i]) <= n

\* The bodies the answer of upload() can have for the named table: one for
\* each pair of lists _unique_values can return.
UploadBody(headers, rows, suggested) ==
    LET Unique(col_idx) == IF col_idx # 0 THEN _unique_values(rows, col_idx) ELSE { <<>> }
    IN  { [headers |-> headers,
           start_nr |-> StartNrColumn(suggested, headers),
           primary_score |-> suggested.primary_score,
           secondary_score |-> suggested.secondary_score,
           row_count |-> Len(rows),
           relays |-> relays,
           start_nrs |-> start_nrs] :
            relays \in Unique(_column_index(headers, RELAY)),
            start_nrs \in Unique(_column_index(headers, START_NR)) }

\* upload() at lines 102 and 104 to 117, with the field names: the headers
\* and rows that it stores, and the bodies its answer can have.
UploadNamed(rows, headers) ==
    [k |-> "named", headers |-> headers, rows |-> rows,
     bodies |-> UploadBody(headers, rows, suggest_columns(headers))]

\* upload() from line 94 to 101, with the rows of the file: refused with
\* 400 without rows, columns or field names, and with 500 when
\* load_field_names raises.
UploadLoaded(rows, fields) ==
    LET Refused(answer) == [k |-> "refused", answer |-> answer]
        Named(loaded) ==
            IF IsRaise(loaded) THEN Refused(InternalServerError(loaded))
            ELSE IF loaded.names = <<>>
            THEN Refused(Error("SIUSFields.txt not found or empty; cannot assign column names"))
            ELSE UploadNamed(rows, headers_from_field_names(MaxLen(rows), loaded.names))
    IN  IF rows = <<>> THEN Refused(Error("File has no data rows"))
        ELSE IF MaxLen(rows) = 0 THEN Refused(Error("File has no columns"))
        ELSE Named(load_field_names(fields))

\* What upload() makes of the posted file and the reference file, which is
\* all of it but _set_tab_store: the answer that refuses the file, or the
\* named table.  The bytes of the file are characters of the model, so
\* that reading and decoding them cannot fail.
UploadRead(file, fields) ==
    LET Refused(answer) == [k |-> "refused", answer |-> answer]
        Loaded(loaded) ==
            IF IsRaise(loaded) THEN Refused(Error("Could not parse CSV: " \o loaded.msg))
            ELSE UploadLoaded(loaded.rows, fields)
    IN  IF ~file.part THEN Refused(Error("No file part"))
        ELSE IF file.filename = <<>> THEN Refused(Error("No file selected"))
        ELSE Loaded(load_data_rows_from_string(file.content))

\* Uploading taking a refused file on to _set_tab_store, with an empty
\* table, before it is answered.
UploadingOrClearing(tab_id, file, read) ==
    [op |-> "upload", pc |-> "time", tab_id |-> tab_id, data |-> file,
     headers |-> IF read.k = "refused" THEN <<>> ELSE read.headers,
     rows |-> IF read.k = "refused" THEN <<>> ELSE read.rows,
     answers |-> IF read.k = "refused"
                 THEN { [status |-> read.answer.status, body |-> read.answer.body] }
                 ELSE { [status |-> 200, body |-> body] : body \in read.bodies },
     last_used |-> 0]

\* The locals of upload() for the tab once it has read the posted file and
\* the reference file (lines 81 to 102): its place pc, the headers and rows
\* it has made, the answers it can return, and the time _set_tab_store
\* takes (0 until then).  A refused file is answered where it is refused,
\* before line 103 (the place is "refuse"); a named table goes on to
\* _set_tab_store at line 103 (the place is "time") and is answered with
\* 200 after it.
Uploading(tab_id, file, read) ==
    [op |-> "upload", pc |-> IF read.k = "refused" THEN "refuse" ELSE "time",
     tab_id |-> tab_id, data |-> file,
     headers |-> IF read.k = "refused" THEN <<>> ELSE read.headers,
     rows |-> IF read.k = "refused" THEN <<>> ELSE read.rows,
     answers |-> IF read.k = "refused"
                 THEN { [status |-> read.answer.status, body |-> read.answer.body] }
                 ELSE { [status |-> 200, body |-> body] : body \in read.bodies },
     last_used |-> 0]

(***************************************************************************)
(* The functions of sius_csv.py applied to inputs: args holds the inputs,  *)
(* ret the call made and what it returned or raised.  The web application  *)
(* is idle in these specifications.                                        *)
(***************************************************************************)

NoCall == [fn |-> "none"]

NoRequest == [op |-> "none"]

WebIdle ==
    /\ fields_file = NoneStr
    /\ now = 0
    /\ tab_store = EmptyDict
    /\ handled = NoRequest

RECURSIVE SeqsUpTo(_, _)
SeqsUpTo(S, n) ==
    IF n = 0 THEN { <<>> }
    ELSE LET shorter == SeqsUpTo(S, n - 1)
         IN  shorter \cup { Append(s, x) : s \in { t \in shorter : Len(t) = n - 1 }, x \in S }

(***************************************************************************)
(* Delimiter detection applied to joined cells.                            *)
(***************************************************************************)

\* The longest sequence of cells joined.
MaxCells == 3

CellPool == { <<>>, <<"a">>, <<"a", ";", "b">>, <<"a", ",", "b">>, <<" ", "1">> }

InitDelim ==
    /\ args \in { [cells |-> c, sep |-> d] : c \in SeqsUpTo(CellPool, MaxCells), d \in {";", ","} }
    /\ ret = NoCall
    /\ WebIdle

\* text = sep.join(cells); _guess_delimiter_from_first_line(text)
GuessJoined ==
    /\ ret = NoCall
    /\ ret' = [fn |-> "_guess_delimiter_from_first_line",
               first_line |-> Join(args.cells, args.sep),
               out |-> _guess_delimiter_from_first_line(Join(args.cells, args.sep))]
    /\ UNCHANGED <<args, fields_file, now, tab_store, handled>>

SpecDelim == InitDelim /\ [][GuessJoined]_vars

NoCellHas(cells, c) == \A i \in 1..Len(cells) : ~Contains(cells[i], c)

\* C7 as stated: cells without a comma joined with ';' are detected as ';',
\* and cells without a semicolon joined with ',' are detected as ',', for
\* every number of cells, a single cell included.
C7_EveryJoinIsDetected ==
    ret.fn = "_guess_delimiter_from_first_line" =>
        /\ args.sep = ";" /\ NoCellHas(args.cells, ",") => ret.out = ";"
        /\ args.sep = "," /\ NoCellHas(args.cells, ";") => ret.out = ","

\* C7, amended: cells without a comma joined with ';' are detected as ';'
\* for every number of cells; cells without a semicolon joined with ',' are
\* detected as ',' when the joined text has a comma in it (two or more
\* cells, or a cell with a comma), and as the default ';' when it has none
\* (no cell, or a single cell without a comma).
C7_JoinIsDetected ==
    ret.fn = "_guess_delimiter_from_first_line" =>
        /\ args.sep = ";" /\ NoCellHas(args.cells, ",") => ret.out = ";"
        /\ args.sep = "," /\ NoCellHas(args.cells, ";")
            => ret.out = IF Len(args.cells) >= 2 \/ ~NoCellHas(args.cells, ",") THEN "," ELSE ";"

\* Three cells without a semicolon were joined with ',' and detected as ','.
C7_Witness ==
    /\ ret.fn = "_guess_delimiter_from_first_line"
    /\ args.sep = ","
    /\ Len(args.cells) = 3
    /\ NoCellHas(args.cells, ";")
    /\ NoCellHas(args.cells, ",")
    /\ ret.out = ","

(***************************************************************************)
(* The Score Deriver applied to a pair of parsed values.                   *)
(***************************************************************************)

\* What _parse_value returns for the cells of a score column: None, ints,
\* floats with and without a fraction, of both signs and beyond the ints of
\* a machine word, the two zeros, the infinity that float() makes of
\* "1e999", and a NaN.
ValuePool ==
    { _parse_value(cell) : cell \in
        { <<>>, <<"0">>, <<"3">>, <<"8">>, <<"-","3">>,
          <<"0",".","0">>, <<"-","0",".","0">>, <<"5",".","5">>, <<"2",".","2","5">>,
          <<"-","5",".","5">>, <<"-","2",".","2","5">>, <<"8",".","0">>,
          <<"1","e","2","2">>, <<"1","e","9","9","9">>, <<"n","a","n">> } }

InitDeriver ==
    /\ args \in { [primary_val |-> p, secondary_val |-> s, primary_is_decimal |-> d] :
                    p \in ValuePool, s \in ValuePool, d \in BOOLEAN }
    /\ ret = NoCall
    /\ WebIdle

Derive ==
    /\ ret = NoCall
    /\ ret' = [fn |-> "_decimal_and_integer_scores",
               out |-> _decimal_and_integer_scores(args.primary_val, args.secondary_val,
                                                   args.primary_is_decimal)]
    /\ UNCHANGED <<args, fields_file, now, tab_store, handled>>

SpecDeriver == InitDeriver /\ [][Derive]_vars

\* n is an int, and the one that x truncated toward zero is.
IsTruncationOf(n, x) ==
    /\ n.k = "int"
    /\ ~NumLess(x, PyInt(0)) => ~NumLess(x, n) /\ NumLess(x, NumAdd(n, PyInt(1)))
    /\ NumLess(x, PyInt(0)) => ~NumLess(n, x) /\ NumLess(NumAdd(n, PyInt(-1)), x)

\* n is an int, and the largest one not above x.
IsFloorOf(n, x) ==
    /\ n.k = "int"
    /\ ~NumLess(x, n) /\ NumLess(x, NumAdd(n, PyInt(1)))

\* The value the integer score is taken from: with a decimal primary the
\* secondary if it is defined and not zero, else the primary.
IntegerSource(p, s, d) ==
    IF d /\ s # None /\ ~NumEq(s, PyInt(0)) THEN s ELSE p

\* C4: with primary_is_decimal the decimal score is the primary and the
\* integer score is the secondary truncated toward zero if it is defined and
\* not zero, else the floor of the primary, else undefined; without it the
\* integer score is the primary as an integer and the decimal score the
\* secondary unchanged; (true, 5.5, 0) gives (5.5, 5), (true, 5.5, 3) gives
\* integer 3 and (false, 8, 2.25) gives (2.25, 8).  Stated where the value
\* the integer is taken from is undefined or finite: an infinity and a NaN
\* have no truncation.  5.5 is 11 / 2 and 2.25 is 9 / 4.
C4_ScoreDeriver ==
    ret.fn = "_decimal_and_integer_scores" =>
        LET p == args.primary_val
            s == args.secondary_val
            d == args.primary_is_decimal
            src == IntegerSource(p, s, d)
        IN  /\ src = None =>
                /\ ret.out.k = "ok"
                /\ ret.out.integer = None
                /\ ret.out.decimal = IF d THEN p ELSE s
            /\ src # None /\ IsFinite(src) =>
                /\ ret.out.k = "ok"
                /\ ret.out.decimal = IF d THEN p ELSE s
                /\ IF d /\ src = p /\ ~(s # None /\ ~NumEq(s, PyInt(0)))
                   THEN IsFloorOf(ret.out.integer, p)
                   ELSE IsTruncationOf(ret.out.integer, src)
            /\ d /\ p = PyFloat(FALSE, <<11>>, -1) /\ s = PyInt(0)
                => ret.out = [k |-> "ok", decimal |-> PyFloat(FALSE, <<11>>, -1),
                              integer |-> PyInt(5)]
            /\ d /\ p = PyFloat(FALSE, <<11>>, -1) /\ s = PyInt(3) => ret.out.integer = PyInt(3)
            /\ ~d /\ p = PyInt(8) /\ s = PyFloat(FALSE, <<9>>, -2)
                => ret.out = [k |-> "ok", decimal |-> PyFloat(FALSE, <<9>>, -2),
                              integer |-> PyInt(8)]

\* The deriver was given a decimal primary below zero and a secondary of 0,
\* and answered the floor of the primary.
C4_Witness ==
    /\ ret.fn = "_decimal_and_integer_scores"
    /\ args.primary_is_decimal
    /\ args.primary_val = PyFloat(TRUE, <<11>>, -1)
    /\ args.secondary_val = PyInt(0)
    /\ ret.out = [k |-> "ok", decimal |-> PyFloat(TRUE, <<11>>, -1), integer |-> PyInt(-6)]

(***************************************************************************)
(* The aggregators and the shot selector applied to a table.               *)
(***************************************************************************)

DECIMAL_SCORE == <<"D","e","c","i","m","a","l"," ","s","c","o","r","e">>

\* The most rows of a table.
MaxRows == 3

TableHeaders == <<START_NR, PRIMARY_SCORE, SECONDARY_SCORE, TIME>>

\* Rows of identifier, primary, secondary and time cells: numeric and other
\* identifiers, padded, empty and blank ones; ints, decimals, text, blanks
\* and "inf" as scores; numeric and other times; rows cut short, and one
\* without a cell.
RowPool ==
    { << >>,
      << <<"1">>, <<"8">>, <<"2">>, <<"1","2",".","5">> >>,
      << <<"a","b","c">>, <<"5",".","5">>, <<"0">>, <<"b","a","d">> >>,
      << <<"1","0">>, <<"x">>, <<>>, <<"2","0",".","0">> >>,
      << <<" ","2"," ">>, <<"9",".","2","5">>, <<"3">> >>,
      << <<>>, <<"5",".","5">>, <<"1">> >>,
      << <<" ">>, <<"7">> >>,
      << <<"1">>, <<"i","n","f">>, <<"0">>, <<"3">> >>,
      << <<"1">>, <<>>, <<"x">>, <<>> >> }

InitTable ==
    /\ args \in { [headers |-> TableHeaders, rows |-> r] : r \in SeqsUpTo(RowPool, MaxRows) }
    /\ ret = NoCall
    /\ WebIdle

\* The identifier columns asked for: the table's, and one it lacks.
IdColumnPool == { START_NR, RELAY }

\* The primary columns asked for: the table's, and one it lacks.
PrimaryColumnPool == { PRIMARY_SCORE, DECIMAL_SCORE }

SecondaryColumnPool == { SECONDARY_SCORE, NoneStr }

\* The score columns asked of summarize_by_id.
ScoreColumnsPool ==
    { <<PRIMARY_SCORE>>, <<PRIMARY_SCORE, SECONDARY_SCORE>>, <<DECIMAL_SCORE>>,
      <<PRIMARY_SCORE, DECIMAL_SCORE>> }

StartNrPool == { <<"1">>, <<"a","b","c">>, <<"2"," ">> }

CallSummarizeDecimalInteger ==
    /\ ret = NoCall
    /\ \E id_column \in IdColumnPool, primary_column \in PrimaryColumnPool,
          secondary_column \in SecondaryColumnPool :
            ret' = [fn |-> "summarize_decimal_integer",
                    id_column |-> id_column,
                    primary_column |-> primary_column,
                    secondary_column |-> secondary_column,
                    out |-> summarize_decimal_integer(args.headers, args.rows, id_column,
                                                      primary_column, secondary_column)]
    /\ UNCHANGED <<args, fields_file, now, tab_store, handled>>

CallSummarizeById ==
    /\ ret = NoCall
    /\ \E id_column \in IdColumnPool, score_columns \in ScoreColumnsPool :
            ret' = [fn |-> "summarize_by_id",
                    id_column |-> id_column,
                    score_columns |-> score_columns,
                    out |-> summarize_by_id(args.headers, args.rows, id_column, score_columns)]
    /\ UNCHANGED <<args, fields_file, now, tab_store, handled>>

CallGetShots ==
    /\ ret = NoCall
    /\ \E start_nr_val \in StartNrPool, secondary_column \in SecondaryColumnPool :
            ret' = [fn |-> "get_shots_for_start_nr",
                    id_column |-> START_NR,
                    primary_column |-> PRIMARY_SCORE,
                    secondary_column |-> secondary_column,
                    start_nr_val |-> start_nr_val,
                    out |-> get_shots_for_start_nr(args.headers, args.rows, START_NR, PRIMARY_SCORE,
                                                   secondary_column, TIME, start_nr_val)]
    /\ UNCHANGED <<args, fields_file, now, tab_store, handled>>

NextTable == CallSummarizeDecimalInteger \/ CallSummarizeById \/ CallGetShots

SpecTable == InitTable /\ [][NextTable]_vars


IsAggregator == ret.fn \in {"summarize_decimal_integer", "summarize_by_id"}

InHeaders(name) == \E i \in 1..Len(args.headers) : args.headers[i] = name

\* Every column the call needs is a header of the table: the identifier
\* column, and the primary column or every requested score column.
ColumnsResolved ==
    /\ InHeaders(ret.id_column)
    /\ ret.fn = "summarize_by_id"
        => \A j \in 1..Len(ret.score_columns) : InHeaders(ret.score_columns[j])
    /\ ret.fn # "summarize_by_id" => InHeaders(ret.primary_column)

\* The rows with a non-blank identifier cell, in their order.
NonBlankRows(rows, id_idx) ==
    SelectSeq(rows, LAMBDA r : HasCell(r, id_idx) /\ Strip(r[id_idx]) # <<>>)

\* The rows whose trimmed identifier is id_val.
RowsOf(rows, id_idx, id_val) ==
    SelectSeq(rows, LAMBDA r : HasCell(r, id_idx) /\ Strip(r[id_idx]) = id_val)

RECURSIVE SumCounts(_)
SumCounts(recs) == IF recs = <<>> THEN 0 ELSE recs[1].count + SumCounts(Tail(recs))

\* C1: the records of both aggregators stand with the all-digit identifiers
\* before the others, the all-digit ones ascending by value (as left-padded
\* with zeros to width 10), the others in lexical order.
C1_IdentifierOrder ==
    IsAggregator /\ ret.out.k = "ok" =>
        \A i, j \in 1..Len(ret.out.recs) :
            i < j =>
                LET a == ret.out.recs[i].id
                    b == ret.out.recs[j].id
                IN  \/ IsDigit(a) /\ ~IsDigit(b)
                    \/ IsDigit(a) /\ IsDigit(b) /\ ~StrLess(ZFill(b, 10), ZFill(a, 10))
                    \/ ~IsDigit(a) /\ ~IsDigit(b) /\ StrLess(a, b)

\* C2: the shots returned stand with those of a numeric time before the
\* others, and the numeric times descending.
C2_ShotOrder ==
    ret.fn = "get_shots_for_start_nr" /\ ret.out.k = "ok" =>
        \A i, j \in 1..Len(ret.out.shots) :
            i < j =>
                LET ti == ParseFloat(Strip(ret.out.shots[i].Time))
                    tj == ParseFloat(Strip(ret.out.shots[j].Time))
                IN  /\ tj # ValueError => ti # ValueError
                    /\ ti # ValueError /\ tj # ValueError => ~NumLess(ti, tj)

\* C3: the counts of the records of an aggregator called with columns the
\* table has add up to the number of rows with a non-blank identifier.
C3_CountsAddUp ==
    IsAggregator /\ ColumnsResolved =>
        /\ ret.out.k = "ok"
        /\ SumCounts(ret.out.recs)
            = Len(NonBlankRows(args.rows, IndexOf(args.headers, ret.id_column)))

\* C5: a score of which none of an identifier's rows has a defined value has
\* an undefined sum and an undefined mean in that identifier's record, never
\* zero: the decimal and the integer score of summarize_decimal_integer, and
\* every requested column of summarize_by_id.
C5_NoDataIsUndefined ==
    IsAggregator /\ ColumnsResolved /\ ret.out.k = "ok" =>
        LET id_idx == IndexOf(args.headers, ret.id_column)
            Mine(rec) == RowsOf(args.rows, id_idx, rec.id)
            NoValue(rec, col_idx) ==
                \A r \in 1..Len(Mine(rec)) : CellValue(Mine(rec)[r], col_idx) = None
            NoInteger(rec, p_idx, s_idx, d) ==
                \A r \in 1..Len(Mine(rec)) :
                    IntegerSource(CellValue(Mine(rec)[r], p_idx), CellValue(Mine(rec)[r], s_idx), d) = None
            DecInt(p_idx, s_idx, d) ==
                \A i \in 1..Len(ret.out.recs) :
                    /\ NoValue(ret.out.recs[i], IF d THEN p_idx ELSE s_idx)
                        => /\ ret.out.recs[i].decimal_sum = None
                           /\ ret.out.recs[i].decimal_mean = None
                    /\ NoInteger(ret.out.recs[i], p_idx, s_idx, d)
                        => /\ ret.out.recs[i].integer_sum = None
                           /\ ret.out.recs[i].integer_mean = None
            ById ==
                \A i \in 1..Len(ret.out.recs) :
                    \A j \in 1..Len(ret.score_columns) :
                        NoValue(ret.out.recs[i], IndexOf(args.headers, ret.score_columns[j]))
                            => /\ ret.out.recs[i].cols[j].sum = None
                               /\ ret.out.recs[i].cols[j].mean = None
        IN  IF ret.fn = "summarize_by_id" THEN ById
            ELSE DecInt(IndexOf(args.headers, ret.primary_column),
                        SecondaryIdx(args.headers, ret.secondary_column),
                        _column_has_decimals(args.rows,
                                             IndexOf(args.headers, ret.primary_column)).v)

\* C6: no record of an aggregator has an empty or blank identifier, and the
\* rows whose identifier cell is missing, empty or blank add to no record,
\* count, sum or mean: each aggregator answers what it answers for the table
\* without those rows.
C6_BlankRowsAddNoRecord ==
    IsAggregator =>
        LET id_idx == IndexOf(args.headers, ret.id_column)
        IN  /\ ret.out.k = "ok" => \A i \in 1..Len(ret.out.recs) : Strip(ret.out.recs[i].id) # <<>>
            /\ ret.fn = "summarize_by_id"
                => ret.out = summarize_by_id(args.headers, NonBlankRows(args.rows, id_idx),
                                             ret.id_column, ret.score_columns)
            /\ ret.fn = "summarize_decimal_integer"
                => ret.out = summarize_decimal_integer(args.headers,
                                                       NonBlankRows(args.rows, id_idx),
                                                       ret.id_column, ret.primary_column,
                                                       ret.secondary_column)

\* C8: a call naming an identifier, primary or score column the table lacks
\* fails: it raises, and so differs from the empty list that aggregating a
\* table without qualifying rows gives.
C8_UnresolvedColumnFails ==
    ret.fn # "none" /\ ~ColumnsResolved => IsRaise(ret.out)

\* C9: with columns the table has, no cell content makes an aggregator or the
\* shot selector raise: a cell that does not parse is left out of the sums,
\* and its row is still counted in its identifier's record.
C9_CellsNeverRaise ==
    ret.fn # "none" /\ ColumnsResolved =>
        /\ ret.out.k = "ok"
        /\ IsAggregator =>
            \A i \in 1..Len(ret.out.recs) :
                ret.out.recs[i].count
                    = Len(RowsOf(args.rows, IndexOf(args.headers, ret.id_column), ret.out.recs[i].id))

(***************************************************************************)
(* The web application as a state machine.  app.run serves each request in *)
(* a thread of its own and _tab_store has no lock: a step of a request is  *)
(* what its handler does between two points at which another request can   *)
(* reach _tab_store or the clock can move.  args holds, for each           *)
(* connection of a client (its session key and a number), the request in   *)
(* flight on it with the locals of its handler.  In Spec the client        *)
(* without an X-Tab-ID header has one connection, so that its requests are *)
(* handled one after the other; in SpecThreads it has two.                 *)
(***************************************************************************)

\* The days the clock runs.
MaxDays == 1

\* The connection of the client of Spec, and the two of SpecThreads.
Client == { <<"default", 1>> }
Threads == { <<"default", 1>>, <<"default", 2>> }

\* SIUSFields.txt with the names the program looks up literally.
FieldsLiteral ==
    <<"F","i","e","l","d","\t","N","o","t","e","\n","S","t","a","r","t"," ",
      "N","R","\t","i","d","\n","P","r","i","m","a","r","y"," ","s","c","o",
      "r","e","\n","S","e","c","o","n","d","a","r","y"," ","s","c","o","r",
      "e","\n","T","i","m","e","\n","R","e","l","a","y","\n","X","\n","Y",
      "\n">>

\* SIUSFields.txt with names that match the standard fields as aliases only.
FieldsAlias ==
    <<"F","i","e","l","d","s","\n","S","t","a","r","t"," ","N","r","\n","D",
      "e","c","i","m","a","l"," ","s","c","o","r","e","\n","S","e","c","o",
      "n","d","a","r","y"," ","s","c","o","r","e","\n","S","h","o","t"," ",
      "t","i","m","e","\n","R","e","l","a","y","\n","X","\n","Y","\n">>

\* The reference file as it can be: either text, missing, or there and not
\* to be opened.
FieldsFilePool == { FieldsLiteral, FieldsAlias, NoneStr, Unreadable }

\* A semicolon export: identifier, primary, secondary, time, relay, X, Y.
SemicolonExport ==
    <<"1",";","8",".","5",";","2",";","1","2",".","5",";","A",";","0",".","5",
      ";","1",".","5","\n","2",";","9",";","0",";","2","0",".","0",";","A",
      ";","1",";","2","\n","1",";","7",".","2","5",";","3",";","b","a","d",
      ";","B",";","x",";","3">>

\* A comma export with a quoted cell, short rows, a row without identifier,
\* and the identifiers "1" and "01", which sort as equals.
CommaExport ==
    <<"\"","a","b","c","\"",",","5",".","5",",","1","\n","1",",","7","\n",",","3","\n",
      "0","1",",","9","\n">>

\* The files posted: none, one without a name, the exports, one of two rows
\* whose second primary score is "inf", a blank one, and one with a carriage
\* return inside a line.
UploadPool ==
    { [part |-> FALSE, filename |-> <<>>, content |-> <<>>],
      [part |-> TRUE, filename |-> <<>>, content |-> <<>>],
      [part |-> TRUE, filename |-> <<"f">>, content |-> SemicolonExport],
      [part |-> TRUE, filename |-> <<"f">>, content |-> CommaExport],
      [part |-> TRUE, filename |-> <<"f">>,
       content |-> <<"1",";","5",".","5",";","1","\n","2",";","i","n","f",";","2">>],
      [part |-> TRUE, filename |-> <<"f">>, content |-> <<" ", "\n">>],
      [part |-> TRUE, filename |-> <<"f">>, content |-> <<"1",";","2","\r","3">>] }

\* The JSON of a summary request.
SummaryDataPool ==
    { [relay |-> r, start_nrs |-> a, excluded_indices |-> x, start_nr |-> NoneStr] :
        r \in { NoneStr, <<"A">> },
        a \in { Absent, Given(<<>>), Given(<< <<"1">> >>) },
        x \in { {}, {0} } }

\* The JSON of a shots or target-data request: for the identifier "1", and
\* one without start_nr.
ShotsDataPool ==
    { [relay |-> r, start_nrs |-> a, excluded_indices |-> x, start_nr |-> <<"1">>] :
        r \in { NoneStr, <<"A">> },
        a \in { Absent, Given(<<>>), Given(<< <<"1">> >>) },
        x \in { {}, {0} } }
    \cup { [relay |-> NoneStr, start_nrs |-> Absent, excluded_indices |-> {}, start_nr |-> NoneStr] }

\* What handled keeps of a request and its answer: the request with the
\* table _get_tab_store returned to it, its JSON, and the answer.
Handled(request, data, r) ==
    [op |-> request.op, tab_id |-> request.tab_id,
     table |-> [headers |-> request.headers, rows |-> request.rows], data |-> data,
     status |-> r.status, body |-> r.body, called |-> r.called, rows |-> r.rows,
     id_column |-> r.id_column]

Init ==
    /\ args = [c \in Client |-> NoRequest]
    /\ ret = NoCall
    /\ fields_file \in FieldsFilePool
    /\ now = 0
    /\ tab_store = EmptyDict
    /\ handled = NoRequest

\* The files of a pool posted under the reference files, each with what
\* upload() makes of the two.
PostedOf(files, fields_files) ==
    { [file |-> file, fields |-> fields, read |-> UploadRead(file, fields)] :
        file \in files, fields \in fields_files }

Posted == PostedOf(UploadPool, FieldsFilePool)

\* The tables _get_tab_store can return: the empty one, and the ones the
\* uploads of the files posted store.
Stored(posted) ==
    { [headers |-> <<>>, rows |-> <<>>] }
    \cup { [headers |-> p.read.headers, rows |-> p.read.rows] :
            p \in { x \in posted : x.read.k = "named" } }

\* summary(), shots() and target_data() from the body on, on each of the
\* tables with each JSON of the pool.
Summaries(tables, pool) ==
    { [headers |-> t.headers, rows |-> t.rows, data |-> data,
       answer |-> summary(t.headers, t.rows, data)] : t \in tables, data \in pool }

ShotLists(tables, pool) ==
    { [headers |-> t.headers, rows |-> t.rows, data |-> data,
       answer |-> shots(t.headers, t.rows, data)] : t \in tables, data \in pool }

Targets(tables, pool) ==
    { [headers |-> t.headers, rows |-> t.rows, data |-> data,
       answer |-> target_data(t.headers, t.rows, data)] : t \in tables, data \in pool }

\* The operations that enter _get_tab_store.
Gets == {"summary", "shots", "target-data"}

\* POST /api/upload arrives on the connection with one of the files posted:
\* upload() reads it and the reference file (lines 81 to 102), which reaches
\* neither _tab_store nor the clock.  What it makes of the two does not
\* depend on the state and is computed once, in posted.  handled is none
\* until a request is answered after this one has arrived.
Upload(c, posted) ==
    /\ args[c] = NoRequest
    /\ \E p \in posted :
        /\ p.fields = fields_file
        /\ args' = [args EXCEPT ![c] = Uploading(c[1], p.file, p.read)]
    /\ handled' = NoRequest
    /\ UNCHANGED <<ret, fields_file, now, tab_store>>

\* The upload in flight on the connection takes a step of _set_tab_store.
SetTabStore(c) ==
    /\ args[c].op = "upload"
    /\ args[c].pc \in {"time", "set"}
    /\ LET Stepped(after) ==
               /\ tab_store' = after.store
               /\ args' = [args EXCEPT ![c] = after.q]
       IN  Stepped(_set_tab_store(tab_store, args[c], now))
    /\ UNCHANGED <<ret, fields_file, now, handled>>

\* upload() returns: the refusal, or after _set_tab_store the answer made
\* of the headers and rows (lines 104 to 117).
Uploaded(c) ==
    /\ args[c].op = "upload"
    /\ args[c].pc \in {"refuse", "return"}
    /\ \E r \in args[c].answers :
        handled' = [op |-> "upload", tab_id |-> args[c].tab_id, data |-> args[c].data,
                    status |-> r.status, body |-> r.body, called |-> FALSE,
                    rows |-> <<>>, id_column |-> NoneStr]
    /\ args' = [args EXCEPT ![c] = NoRequest]
    /\ UNCHANGED <<ret, fields_file, now, tab_store>>

\* POST /api/summary, /api/shots or /api/target-data arrives on the
\* connection: its handler enters _get_tab_store and takes the time.
Request(c, ops) ==
    /\ args[c] = NoRequest
    /\ \E op \in ops :
        args' = [args EXCEPT ![c] = Entered(op, c[1], now)]
    /\ handled' = NoRequest
    /\ UNCHANGED <<ret, fields_file, now, tab_store>>

\* The handler in flight on the connection takes a step of _get_tab_store.
\* After the last one it waits in request.get_json() with the headers and
\* rows returned.
GetTabStore(c) ==
    /\ args[c].op \in Gets
    /\ args[c].pc \notin {"return", "raise"}
    /\ LET Stepped(after) ==
               /\ tab_store' = after.store
               /\ args' = [args EXCEPT ![c] = after.q]
       IN  Stepped(_get_tab_store(tab_store, args[c]))
    /\ UNCHANGED <<ret, fields_file, now, handled>>

\* An exception has left _get_tab_store and the handler: the answer is 500.
Raised(c) ==
    /\ args[c].op \in Gets
    /\ args[c].pc = "raise"
    /\ handled' = Handled(args[c], NoneStr, InternalServerError(args[c].raised))
    /\ args' = [args EXCEPT ![c] = NoRequest]
    /\ UNCHANGED <<ret, fields_file, now, tab_store>>

\* The handler answers from the body on, with one of the answers made of
\* the table _get_tab_store has returned to it.
Answers(c, answers) ==
    /\ args[c].pc = "return"
    /\ \E a \in answers :
        /\ a.headers = args[c].headers /\ a.rows = args[c].rows
        /\ handled' = Handled(args[c], a.data, a.answer)
    /\ args' = [args EXCEPT ![c] = NoRequest]
    /\ UNCHANGED <<ret, fields_file, now, tab_store>>

\* POST /api/summary from the body on.
Summary(c, answers) == args[c].op = "summary" /\ Answers(c, answers)

\* POST /api/shots from the body on.
Shots(c, answers) == args[c].op = "shots" /\ Answers(c, answers)

\* POST /api/target-data from the body on.
TargetData(c, answers) == args[c].op = "target-data" /\ Answers(c, answers)

\* The instants of the requests: the start, and of each day its last second
\* within the TTL and the first one beyond it.
Instants == {0} \cup { d * _TAB_TTL_SECONDS + e : d \in 1..MaxDays, e \in {0, 1} }

\* Time passes.
Tick ==
    /\ \E t \in Instants :
        /\ t > now
        /\ now' = t
    /\ UNCHANGED <<args, ret, fields_file, tab_store, handled>>

\* The requests of one connection: no exception leaves _get_tab_store then
\* (_tab_store changes under its iteration, and a key it has found expired
\* goes before its del, only by a step of another request), so Raised is no
\* step of these behaviours.
Next ==
    \/ \E c \in Client : Upload(c, Posted)
    \/ \E c \in Client : SetTabStore(c)
    \/ \E c \in Client : Uploaded(c)
    \/ \E c \in Client : Request(c, Gets)
    \/ \E c \in Client : GetTabStore(c)
    \/ \E c \in Client : Summary(c, Summaries(Stored(Posted), SummaryDataPool))
    \/ \E c \in Client : Shots(c, ShotLists(Stored(Posted), ShotsDataPool))
    \/ \E c \in Client : TargetData(c, Targets(Stored(Posted), ShotsDataPool))
    \/ Tick

Spec == Init /\ [][Next]_vars

\* C10: in summary, shots and target-data a given empty allow-list lets no
\* row reach the aggregator or shot selector, an absent one filters nothing,
\* and a non-empty one keeps exactly the rows whose trimmed cell in the
\* column the aggregation groups by is in the list; stated of the requests
\* that exclude no positions, on the rows the relay filter leaves.
C10_AllowListOnGroupingColumn ==
    handled.op \in {"summary", "shots", "target-data"} /\ handled.called
        /\ handled.data.excluded_indices = {} =>
        LET Allowed(left, id_idx, allow) ==
                IF ~allow.given THEN left
                ELSE SelectSeq(left, LAMBDA r :
                        /\ HasCell(r, id_idx)
                        /\ \E i \in 1..Len(allow.items) : allow.items[i] = Strip(r[id_idx]))
            Of(table) ==
                handled.rows = Allowed(RelayFiltered(table.headers, table.rows, handled.data.relay),
                                       IndexOf(table.headers, handled.id_column),
                                       handled.data.start_nrs)
        IN  Of(handled.table)

\* C12: in summary, shots and target-data the rows that reach the
\* aggregator or shot selector are the rows the relay filter and then the
\* allow-list leave, without those at the excluded positions of that
\* filtered sequence (counted from 0): a supplied set of excluded positions
\* is always applied, after the two filters.
C12_FiltersThenExclusion ==
    handled.op \in {"summary", "shots", "target-data"} /\ handled.called =>
        LET Without(left, x) ==
                LET kept == SelectSeq([i \in 1..Len(left) |-> i], LAMBDA i : (i - 1) \notin x)
                IN  [k \in 1..Len(kept) |-> left[kept[k]]]
            Of(table) ==
                handled.rows =
                    Without(AllowFiltered(table.headers,
                                          RelayFiltered(table.headers, table.rows,
                                                        handled.data.relay),
                                          handled.data.start_nrs),
                            handled.data.excluded_indices)
        IN  Of(handled.table)


(***************************************************************************)
(* The web application with two connections of the client without an       *)
(* X-Tab-ID header: the steps of two requests of one session interleave.   *)
(***************************************************************************)

InitThreads ==
    /\ args = [c \in Threads |-> NoRequest]
    /\ ret = NoCall
    /\ fields_file \in FieldsFilePool
    /\ now = 0
    /\ tab_store = EmptyDict
    /\ handled = NoRequest

\* The JSON of the summary requests of SpecThreads: no filter.
NoFilter ==
    [relay |-> NoneStr, start_nrs |-> Absent, excluded_indices |-> {}, start_nr |-> NoneStr]

\* A request on a connection takes a step, or time passes.
NextThreads ==
    \/ \E c \in Threads : Upload(c, Posted)
    \/ \E c \in Threads : SetTabStore(c)
    \/ \E c \in Threads : Uploaded(c)
    \/ \E c \in Threads : Request(c, {"summary"})
    \/ \E c \in Threads : GetTabStore(c)
    \/ \E c \in Threads : Raised(c)
    \/ \E c \in Threads : Summary(c, Summaries(Stored(Posted), {NoFilter}))
    \/ Tick

SpecThreads == InitThreads /\ [][NextThreads]_vars

\* The step is one of an upload on the connection, from its arrival to
\* its answer.
UploadSteps(c) == args'[c] # args[c] /\ "upload" \in {args[c].op, args'[c].op}

\* The step answers the upload in flight on the connection.
UploadEnds(c) == args[c].op = "upload" /\ args'[c] = NoRequest

\* The file parses, and to no row or to rows without a cell.
HasNoColumns(content) ==
    LET Without(loaded) == ~IsRaise(loaded) /\ (loaded.rows = <<>> \/ MaxLen(loaded.rows) = 0)
    IN  Without(load_data_rows_from_string(content))

\* The reference file gives no field name: it is missing, or has none.
HasNoNames(file) ==
    LET Without(loaded) == ~IsRaise(loaded) /\ loaded.names = <<>>
    IN  Without(load_field_names(file))

\* The posted file is one whose content is empty or only whitespace or has
\* no columns, or the reference file gives no field name.
Unusable(file) ==
    /\ file.part /\ file.filename # <<>>
    /\ \/ Strip(file.content) = <<>>
       \/ HasNoColumns(file.content)
       \/ HasNoNames(fields_file)

\* C15: an upload of a file whose content is empty or only whitespace or
\* has no columns, or one that comes while the reference file is missing or
\* gives no field name, is answered with an error (status 400 and a reason,
\* never a success), and no step of it changes the session store; and so it
\* is with every upload that is not answered with a success, these and the
\* ones refused for another reason with 400 or failed with 500: its answer
\* names no table and none of its steps has changed the store, for a step
\* of an upload changes the store only when the upload is then answered
\* with a success.  The table uploaded before is the one later requests
\* work on.
C15_FailedUploadKeepsStore ==
    [][ \A c \in DOMAIN args :
            /\ UploadSteps(c) /\ tab_store' # tab_store =>
                /\ \A r \in args[c].answers : r.status = 200
                /\ ~Unusable(args[c].data)
            /\ UploadEnds(c) =>
                /\ \E r \in args[c].answers :
                        r.status = handled'.status /\ r.body = handled'.body
                /\ handled'.status # 200 =>
                        /\ handled'.status \in {400, 500}
                        /\ "headers" \notin DOMAIN handled'.body
                /\ Unusable(args[c].data) =>
                        /\ handled'.status = 400
                        /\ DOMAIN handled'.body = {"error"} ]_vars

\* A blank file was uploaded after a table: the answer is the error and the
\* table is still stored.
C15_Witness ==
    /\ handled.op = "upload"
    /\ handled.data.part /\ handled.data.filename # <<>>
    /\ handled.data.content # <<>> /\ Strip(handled.data.content) = <<>>
    /\ handled.status = 400
    /\ handled.body = [error |-> "File has no data rows"]
    /\ handled.tab_id \in DictKeys(tab_store)
    /\ DictGet(tab_store, handled.tab_id).rows # <<>>

\* C17, its first half, with the sweep of the sessions idle for more than
\* 24 hours allowed for: a step of a summary, shots or target-data request
\* leaves the headers and rows of every session stored that was last
\* touched within the 24 hours before the step, whatever its parameters
\* and its answer.  (The second half holds by construction: the handlers
\* read no state but the table _get_tab_store returns and their own JSON.)
C17_RequestsKeepTable ==
    [][ \A c \in DOMAIN args :
            args'[c] # args[c] /\ (args[c].op \in Gets \/ args'[c].op \in Gets) =>
                \A tid \in DictKeys(tab_store) :
                    ~(now - DictGet(tab_store, tid).last_used > _TAB_TTL_SECONDS) =>
                        /\ tid \in DictKeys(tab_store')
                        /\ DictGet(tab_store', tid).headers = DictGet(tab_store, tid).headers
                        /\ DictGet(tab_store', tid).rows = DictGet(tab_store, tid).rows ]_vars

(***************************************************************************)
(* The web application handling the requests of two sessions, each on a    *)
(* connection of its own: a client uses its key sequentially, so that one  *)
(* request per session is in flight at a time.  The requests are uploads   *)
(* and summaries; shots and target_data enter _get_tab_store as summary    *)
(* does.  In SpecSessions the requests are handled one after the other, in *)
(* SpecConcurrent in threads.                                              *)
(***************************************************************************)

\* The connections of the two sessions.
Sessions == { <<"a", 1>>, <<"b", 1>> }

InitSessions ==
    /\ args = [c \in Sessions |-> NoRequest]
    /\ ret = NoCall
    /\ fields_file = FieldsLiteral
    /\ now = 0
    /\ tab_store = EmptyDict
    /\ handled = NoRequest

\* The file every upload of a session posts.
SessionFile == [part |-> TRUE, filename |-> <<"f">>, content |-> <<"1", ";", "8", ".", "5">>]

\* A request of a session takes a step, or time passes.
NextConcurrent ==
    \/ \E c \in Sessions : Upload(c, PostedOf({SessionFile}, {FieldsLiteral}))
    \/ \E c \in Sessions : SetTabStore(c)
    \/ \E c \in Sessions : Uploaded(c)
    \/ \E c \in Sessions : Request(c, {"summary"})
    \/ \E c \in Sessions : GetTabStore(c)
    \/ \E c \in Sessions : Raised(c)
    \/ \E c \in Sessions :
            Summary(c, Summaries(Stored(PostedOf({SessionFile}, {FieldsLiteral})), {NoFilter}))
    \/ Tick

SpecConcurrent == InitSessions /\ [][NextConcurrent]_vars

\* No request is in flight on another connection.
NoOtherInFlight(c) == \A other \in DOMAIN args \ {c} : args[other] = NoRequest

\* An upload comes only while no request is in flight on another connection.
UploadInTurn(c, posted) == NoOtherInFlight(c) /\ Upload(c, posted)

\* A request comes only while no request is in flight on another connection.
RequestInTurn(c, ops) == NoOtherInFlight(c) /\ Request(c, ops)

\* The requests handled one after the other.  No exception leaves
\* _get_tab_store then, so Raised is no step of these behaviours.
NextSessions ==
    \/ \E c \in Sessions : UploadInTurn(c, PostedOf({SessionFile}, {FieldsLiteral}))
    \/ \E c \in Sessions : SetTabStore(c)
    \/ \E c \in Sessions : Uploaded(c)
    \/ \E c \in Sessions : RequestInTurn(c, {"summary"})
    \/ \E c \in Sessions : GetTabStore(c)
    \/ \E c \in Sessions :
            Summary(c, Summaries(Stored(PostedOf({SessionFile}, {FieldsLiteral})), {NoFilter}))
    \/ Tick

SpecSessions == InitSessions /\ [][NextSessions]_vars

\* The step ends a summary request on the connection.
SummaryEnds(c) == args[c].op = "summary" /\ args'[c] = NoRequest

\* No session of the store was last touched more than 24 hours before t.
NoneStaleAt(store, t) ==
    \A tid \in DictKeys(store) : ~(t - DictGet(store, tid).last_used > _TAB_TTL_SECONDS)

\* C13: once a request (an upload that has stored its table, or a summary,
\* which enters the store as shots and target-data do) has been handled,
\* the store holds no session last touched more than 24 hours before the
\* time that request took; a session is removed only by the sweep of a
\* request made more than 24 hours after it was last touched; and a request
\* of a session that was idle for more than 24 hours is answered 'Upload a
\* file first'.
C13_StaleSessionsSwept ==
    [][ /\ \A c \in DOMAIN args :
            /\ UploadEnds(c) /\ args[c].pc = "return" =>
                    NoneStaleAt(tab_store', args[c].last_used)
            /\ SummaryEnds(c) => NoneStaleAt(tab_store', args[c].now)
            /\ SummaryEnds(c)
                /\ (\E i \in 1..Len(args[c].expired) : args[c].expired[i] = args[c].tab_id)
                => handled'.status = 400 /\ handled'.body = [error |-> "Upload a file first"]
        /\ \A tid \in DictKeys(tab_store) \ DictKeys(tab_store') :
            \E c \in DOMAIN args :
                /\ args'[c] # args[c]
                /\ args[c].op = "summary"
                /\ args[c].now - DictGet(tab_store, tid).last_used > _TAB_TTL_SECONDS ]_vars

\* C14: under every interleaving of the steps of requests of different
\* sessions, no request fails because of the other (none ends in an
\* exception, answered 500), and a table stored by a session's upload and
\* last touched within the last 24 hours is not removed or replaced by a
\* step of another session's request.
C14_SessionsDoNotInteract ==
    [][ /\ handled'.op # "none" => handled'.status # 500
        /\ \A tab_id \in DictKeys(tab_store) :
            /\ DictGet(tab_store, tab_id).rows # <<>>
            /\ ~(now - DictGet(tab_store, tab_id).last_used > _TAB_TTL_SECONDS)
            /\ \A c \in DOMAIN args : c[1] = tab_id => args'[c] = args[c]
            => /\ tab_id \in DictKeys(tab_store')
               /\ DictGet(tab_store', tab_id).headers = DictGet(tab_store, tab_id).headers
               /\ DictGet(tab_store', tab_id).rows = DictGet(tab_store, tab_id).rows ]_vars

(***************************************************************************)
(* The Field-Name Mapper (load_field_names applied to a reference file and *)
(* headers_from_field_names to the names it loaded) and the Column Role     *)
(* Inferencer (infer_column_types) applied to inputs.                      *)
(***************************************************************************)

\* The most lines of a reference file after its header line.
MaxLines == 2

\* The most columns of an uploaded table.
MaxColumns == 3

\* infer_column_types with the identifier aliases tried before the hint.
InferAliasBeforeHint(headers, rows, id_hint, score_hints) ==
    LET _normalize_header(name) ==
            SelectSeq(Lower(Strip(name)), LAMBDA c : c \notin {" ", "_", "-"})
        SIUS_ID_ALIASES ==
            { <<"s","t","a","r","t"," ","n","u","m","b","e","r">>,
              <<"s","t","a","r","t","n","u","m","b","e","r">>,
              <<"s","t","a","r","t","_","n","o">>, <<"i","d">>,
              <<"c","o","m","p","e","t","i","t","o","r">>, <<"s","h","o","o","t","e","r">> }
        SIUS_SCORE_ALIASES ==
            { <<"d","e","c","i","m","a","l"," ","s","c","o","r","e">>,
              <<"d","e","c","i","m","a","l","s","c","o","r","e">>, <<"s","c","o","r","e">>,
              <<"d","e","c","i","m","a","l">>, <<"p","o","i","n","t","s">>,
              <<"i","n","n","e","r"," ","t","e","n">>, <<"i","n","n","e","r","t","e","n">> }
        First(S) == CHOOSE i \in S : \A j \in S : i <= j
        Hinted ==
            IF id_hint = NoneStr \/ id_hint = <<>> THEN {}
            ELSE { i \in 1..Len(headers) :
                     \/ _normalize_header(headers[i]) = _normalize_header(id_hint)
                     \/ id_hint = headers[i]
                     \/ id_hint = NatStr(i - 1) }
        Aliased ==
            { i \in 1..Len(headers) :
                \/ _normalize_header(headers[i]) \in SIUS_ID_ALIASES
                \/ ContainsSub(_normalize_header(headers[i]), <<"s","t","a","r","t">>) }
        IdCols(hinted, aliased) ==
            IF aliased # {} THEN << headers[First(aliased)] >>
            ELSE IF hinted # {} THEN << headers[First(hinted)] >>
            ELSE << headers[1] >>
        Sample(i) ==
            LET some == SubSeq(rows, 1, IF Len(rows) < 50 THEN Len(rows) ELSE 50)
            IN  [r \in 1..Len(some) |-> IF HasCell(some[r], i) THEN some[r][i] ELSE <<>>]
        AllNumeric(sample) ==
            \A r \in 1..Len(sample) : sample[r] # <<>> => _is_numeric(sample[r])
        IsScore(id_cols, i) ==
            /\ \A k \in 1..Len(id_cols) : headers[i] # id_cols[k]
            /\ \/ \E k \in 1..Len(score_hints) :
                    _normalize_header(headers[i]) = _normalize_header(score_hints[k])
               \/ _normalize_header(headers[i]) \in SIUS_SCORE_ALIASES
               \/ ContainsSub(_normalize_header(headers[i]), <<"s","c","o","r","e">>)
               \/ ContainsSub(_normalize_header(headers[i]), <<"d","e","c","i","m","a","l">>)
               \/ AllNumeric(Sample(i))
        Picked(idxs) == [k \in 1..Len(idxs) |-> headers[idxs[k]]]
        Result(id_cols) ==
            [id_cols |-> id_cols,
             score_cols |-> Picked(SelectSeq([i \in 1..Len(headers) |-> i],
                                             LAMBDA i : IsScore(id_cols, i)))]
    IN  IF headers = <<>> \/ rows = <<>> THEN [id_cols |-> <<>>, score_cols |-> <<>>]
        ELSE Result(IdCols(Hinted, Aliased))

\* (id_cols, score_cols); id_hint None is NoneStr, score_hints None is [].
\* Hinted and Aliased are the positions (from 1) at which the first and the
\* second loop over the headers would stop.
infer_column_types(headers, rows, id_hint, score_hints) ==
    LET _normalize_header(name) ==
            SelectSeq(Lower(Strip(name)), LAMBDA c : c \notin {" ", "_", "-"})
        SIUS_ID_ALIASES ==
            { <<"s","t","a","r","t"," ","n","u","m","b","e","r">>,
              <<"s","t","a","r","t","n","u","m","b","e","r">>,
              <<"s","t","a","r","t","_","n","o">>, <<"i","d">>,
              <<"c","o","m","p","e","t","i","t","o","r">>, <<"s","h","o","o","t","e","r">> }
        SIUS_SCORE_ALIASES ==
            { <<"d","e","c","i","m","a","l"," ","s","c","o","r","e">>,
              <<"d","e","c","i","m","a","l","s","c","o","r","e">>, <<"s","c","o","r","e">>,
              <<"d","e","c","i","m","a","l">>, <<"p","o","i","n","t","s">>,
              <<"i","n","n","e","r"," ","t","e","n">>, <<"i","n","n","e","r","t","e","n">> }
        First(S) == CHOOSE i \in S : \A j \in S : i <= j
        Hinted ==
            IF id_hint = NoneStr \/ id_hint = <<>> THEN {}
            ELSE { i \in 1..Len(headers) :
                     \/ _normalize_header(headers[i]) = _normalize_header(id_hint)
                     \/ id_hint = headers[i]
                     \/ id_hint = NatStr(i - 1) }
        Aliased ==
            { i \in 1..Len(headers) :
                \/ _normalize_header(headers[i]) \in SIUS_ID_ALIASES
                \/ ContainsSub(_normalize_header(headers[i]), <<"s","t","a","r","t">>) }
        IdCols(hinted, aliased) ==
            IF hinted # {} THEN << headers[First(hinted)] >>
            ELSE IF aliased # {} THEN << headers[First(aliased)] >>
            ELSE << headers[1] >>
        Sample(i) ==
            LET some == SubSeq(rows, 1, IF Len(rows) < 50 THEN Len(rows) ELSE 50)
            IN  [r \in 1..Len(some) |-> IF HasCell(some[r], i) THEN some[r][i] ELSE <<>>]
        AllNumeric(sample) ==
            \A r \in 1..Len(sample) : sample[r] # <<>> => _is_numeric(sample[r])
        IsScore(id_cols, i) ==
            /\ \A k \in 1..Len(id_cols) : headers[i] # id_cols[k]
            /\ \/ \E k \in 1..Len(score_hints) :
                    _normalize_header(headers[i]) = _normalize_header(score_hints[k])
               \/ _normalize_header(headers[i]) \in SIUS_SCORE_ALIASES
               \/ ContainsSub(_normalize_header(headers[i]), <<"s","c","o","r","e">>)
               \/ ContainsSub(_normalize_header(headers[i]), <<"d","e","c","i","m","a","l">>)
               \/ AllNumeric(Sample(i))
        Picked(idxs) == [k \in 1..Len(idxs) |-> headers[idxs[k]]]
        Result(id_cols) ==
            [id_cols |-> id_cols,
             score_cols |-> Picked(SelectSeq([i \in 1..Len(headers) |-> i],
                                             LAMBDA i : IsScore(id_cols, i)))]
    IN  IF headers = <<>> \/ rows = <<>> THEN [id_cols |-> <<>>, score_cols |-> <<>>]
        ELSE Result(IdCols(Hinted, Aliased))

\* The inputs.  For headers_from_field_names: a reference file of a header
\* line (the field column first, second or nowhere) and entry lines (named,
\* blank, padded, blank with a note), as cells, or no file, and a table of
\* 0..MaxColumns columns.  For infer_column_types: up to MaxColumns headers
\* (alias, 'start', score alias, plain, a digit), a sample of rows, and the
\* hints.
InitNames ==
    /\ LET FieldsHeaderPool ==
               { << <<"F","i","e","l","d">>, <<"N","o","t","e">> >>,
                 << <<" ","f","i","e","l","d","s"," ">> >>,
                 << <<"N","o","t","e">>, <<"F","i","e","l","d">> >>,
                 << <<"N","a","m","e">>, <<"N","o","t","e">> >> }
           FieldsLinePool ==
               { << <<"S","t","a","r","t"," ","N","R">>, <<"i","d">> >>,
                 << <<>> >>,
                 << <<" ">>, <<"x">> >>,
                 << <<" ","T","i","m","e"," "," ">> >>,
                 << <<>>, <<"R","e","l","a","y">> >> }
           HeaderPool ==
               { <<"I"," ","D">>, <<"S","t","a","r","t">>, <<"S","c","-","o","r","e">>,
                 <<"x">>, <<"1">> }
           SamplePool ==
               { <<>>,
                 << << <<"1">>, <<"5",".","5">>, <<"a">> >> >>,
                 << << <<"2">>, <<>> >> >>,
                 << << <<"1">>, <<"5",".","5">>, <<"a">> >>, << <<"b">>, <<"7">> >> >> }
           IdHintPool == { NoneStr, <<>>, <<"1">>, <<"x">>, <<"X">>, <<"i","d">>, <<"z">> }
           ScoreHintsPool == { <<>>, << <<"X">> >> }
       IN  args \in
             { [fn |-> "headers_from_field_names", lines |-> <<h>> \o ls, exists |-> e,
                num_columns |-> n] :
                 h \in FieldsHeaderPool, ls \in SeqsUpTo(FieldsLinePool, MaxLines),
                 e \in BOOLEAN, n \in 0..MaxColumns }
             \cup
             { [fn |-> "infer_column_types", headers |-> hs, rows |-> rs, id_hint |-> ih,
                score_hints |-> sh] :
                 hs \in SeqsUpTo(HeaderPool, MaxColumns), rs \in SamplePool,
                 ih \in IdHintPool, sh \in ScoreHintsPool }
    /\ ret = NoCall
    /\ WebIdle

\* field_names = load_field_names(path); headers_from_field_names(n, field_names)
\* for the file of args.lines: cells joined with tabs, every line ended
\* with a line end.
NameColumns ==
    /\ ret = NoCall
    /\ args.fn = "headers_from_field_names"
    /\ LET FileOf(lines) ==
               Join([i \in 1..Len(lines) |-> Join(lines[i], "\t")], "\n") \o <<"\n">>
           Named(field_names) ==
               ret' = [fn |-> "headers_from_field_names",
                       field_names |-> field_names,
                       out |-> headers_from_field_names(args.num_columns, field_names)]
       IN  Named(load_field_names(IF args.exists THEN FileOf(args.lines) ELSE NoneStr).names)
    /\ UNCHANGED <<args, fields_file, now, tab_store, handled>>

\* infer_column_types(headers, rows, id_hint, score_hints)
InferColumns ==
    /\ ret = NoCall
    /\ args.fn = "infer_column_types"
    /\ ret' = [fn |-> "infer_column_types",
               out |-> infer_column_types(args.headers, args.rows, args.id_hint,
                                          args.score_hints)]
    /\ UNCHANGED <<args, fields_file, now, tab_store, handled>>

SpecNames == InitNames /\ [][NameColumns \/ InferColumns]_vars

\* The first-column entries of the lines after the header line that are not
\* blank, stripped, in file order.
RECURSIVE FirstColumnNames(_)
FirstColumnNames(lines) ==
    IF lines = <<>> THEN <<>>
    ELSE (IF Strip(Head(lines)[1]) = <<>> THEN <<>> ELSE << Strip(Head(lines)[1]) >>)
         \o FirstColumnNames(Tail(lines))

\* C11: headers_from_field_names returns exactly num_columns names;
\* position i (from 0) holds field_names[i] when i < len(field_names) and
\* 'Column {i+1}' otherwise; and the field_names load_field_names loads
\* from a reference file (none from a missing file) are the non-blank
\* first-column entries after the header line, in file order, a blank
\* entry taking no position.
C11_HeadersFromFieldNames ==
    ret.fn = "headers_from_field_names" =>
        /\ Len(ret.out) = args.num_columns
        /\ \A i \in 1..Len(ret.out) :
            IF i <= Len(ret.field_names)
            THEN ret.out[i] = ret.field_names[i]
            ELSE /\ SubSeq(ret.out[i], 1, 7) = <<"C","o","l","u","m","n"," ">>
                 /\ LET digits == SubSeq(ret.out[i], 8, Len(ret.out[i]))
                    IN  /\ IsDigit(digits)
                        /\ digits[1] # "0"
                        /\ DigitsBig(digits) = BigOf(i)
        /\ ~args.exists => ret.field_names = <<>>
        /\ args.exists => ret.field_names = FirstColumnNames(Tail(args.lines))

\* The header the identifier resolution order names: the first header the
\* hint matches by normalized name, literal name or position (from 0), else
\* the first whose normalized name is an identifier alias or contains
\* 'start', else the first header.
ResolvedIdentifier(headers, id_hint) ==
    LET IdAliases == { <<"s","t","a","r","t","n","u","m","b","e","r">>, <<"i","d">>,
                       <<"c","o","m","p","e","t","i","t","o","r">>,
                       <<"s","h","o","o","t","e","r">> }
        HasHint == id_hint # NoneStr /\ id_hint # <<>>
        ByHint(i) ==
            /\ HasHint
            /\ \/ _normalize(headers[i]) = _normalize(id_hint)
               \/ headers[i] = id_hint
               \/ IsDigit(id_hint) /\ DigitsBig(id_hint) = BigOf(i - 1)
                    /\ (Len(id_hint) = 1 \/ id_hint[1] # "0")
        ByAlias(i) ==
            \/ _normalize(headers[i]) \in IdAliases
            \/ ContainsSub(_normalize(headers[i]), <<"s","t","a","r","t">>)
        FirstBy(P(_)) == CHOOSE i \in 1..Len(headers) : P(i) /\ \A j \in 1..(i - 1) : ~P(j)
    IN  IF \E i \in 1..Len(headers) : ByHint(i) THEN headers[FirstBy(ByHint)]
        ELSE IF \E i \in 1..Len(headers) : ByAlias(i) THEN headers[FirstBy(ByAlias)]
        ELSE headers[1]

\* C16 as stated: for every non-empty header list and every row sample, an
\* empty one included, infer_column_types returns exactly one identifier
\* column, the one the resolution order names, and never returns it among
\* the score columns.
C16_OneIdentifierForEverySample ==
    ret.fn = "infer_column_types" /\ args.headers # <<>> =>
        /\ ret.out.id_cols = << ResolvedIdentifier(args.headers, args.id_hint) >>
        /\ \A k \in 1..Len(ret.out.score_cols) : ret.out.score_cols[k] # ret.out.id_cols[1]

\* C16, amended: for every non-empty header list and every non-empty row
\* sample, infer_column_types returns exactly one identifier column, the
\* one the resolution order names, and never returns it among the score
\* columns; for an empty row sample it returns no identifier column and no
\* score column.
C16_OneIdentifierForNonEmptySample ==
    ret.fn = "infer_column_types" /\ args.headers # <<>> =>
        IF args.rows = <<>>
        THEN ret.out = [id_cols |-> <<>>, score_cols |-> <<>>]
        ELSE /\ ret.out.id_cols = << ResolvedIdentifier(args.headers, args.id_hint) >>
             /\ \A k \in 1..Len(ret.out.score_cols) :
                    ret.out.score_cols[k] # ret.out.id_cols[1]

\* The hint named the second header by its position, ahead of a first
\* header that is an identifier alias; the header came back as the
\* identifier and not as a score column, another header did.
C16_Witness ==
    /\ ret.fn = "infer_column_types"
    /\ args.rows # <<>>
    /\ args.id_hint = <<"1">>
    /\ args.headers = << <<"I"," ","D">>, <<"x">>, <<"S","c","-","o","r","e">> >>
    /\ ret.out.id_cols = << <<"x">> >>
    /\ ret.out.score_cols = << <<"I"," ","D">>, <<"S","c","-","o","r","e">> >>

\* C18: with the relay and allow-list of a shots request, each index the
\* request returned names a row of the target in the filtered sequence, and
\* a summary with the same relay and allow-list that excludes k of the
\* returned indices is answered from the filtered rows without exactly
\* those rows: the target's count is lower by k than in the summary that
\* excludes nothing, and every other identifier's count is the same.
C18_ShotIndexIsSummaryIndex ==
    handled.op = "shots" /\ handled.status = 200 =>
        LET table == handled.table
            With(x) ==
                summary(table.headers, table.rows, [handled.data EXCEPT !.excluded_indices = x])
            Ids(s) == { s.body.summary[i].Start_NR : i \in 1..Len(s.body.summary) }
            Count(s, id) ==
                IF id \in Ids(s)
                THEN s.body.summary[CHOOSE i \in 1..Len(s.body.summary) :
                                        s.body.summary[i].Start_NR = id].count
                ELSE 0
            Lowered(id, x) == IF id = Strip(handled.data.start_nr) THEN Cardinality(x) ELSE 0
            Without(left, x) ==
                LET kept == SelectSeq([i \in 1..Len(left) |-> i], LAMBDA i : (i - 1) \notin x)
                IN  [k \in 1..Len(kept) |-> left[kept[k]]]
            Agree(all, less, x) ==
                /\ less.status = 200
                /\ less.rows = Without(all.rows, x)
                /\ \A id \in Ids(all) \cup Ids(less) :
                        Count(less, id) = Count(all, id) - Lowered(id, x)
        IN  With({}).status = 200 =>
                \A x \in SUBSET { handled.body.shots[i].index : i \in 1..Len(handled.body.shots) } :
                    /\ \A i \in x : i + 1 <= Len(handled.rows)
                    /\ handled.rows = With({}).rows
                    /\ Agree(With({}), With(x), x)

\* C19: the sums and means of a competitor's record in a summary, and the
\* decimal and integer scores of the competitor's shots, depend only on the
\* competitor's own rows: they are the ones computed from the competitor's
\* rows alone, whichever rows of other competitors reach the aggregator or
\* shot selector with them.
C19_CompetitorsAreIndependent ==
    handled.op \in {"summary", "shots"} /\ handled.status = 200 =>
        LET headers == handled.table.headers
            suggested == suggest_columns(headers)
            id_idx == IndexOf(headers, handled.id_column)
            Own(id) ==
                SelectSeq(handled.rows,
                          LAMBDA row : HasCell(row, id_idx) /\ IdOf(row, id_idx) = id)
            Alone(id) ==
                summarize_decimal_integer(headers, Own(id), handled.id_column,
                                          suggested.primary_score, suggested.secondary_score)
            ShotsAlone(id) ==
                get_shots_for_start_nr(headers, Own(id), handled.id_column,
                                       suggested.primary_score, suggested.secondary_score,
                                       ShotsTimeColumn(headers), id)
            Scores(shot_list) ==
                [i \in 1..Len(shot_list) |->
                    [Decimal |-> shot_list[i].Decimal, Integer |-> shot_list[i].Integer]]
        IN  IF handled.op = "summary"
            THEN \A i \in 1..Len(handled.body.summary) :
                    /\ ~IsRaise(Alone(handled.body.summary[i].Start_NR))
                    /\ SummaryBody(Alone(handled.body.summary[i].Start_NR).recs).summary
                            = <<handled.body.summary[i]>>
            ELSE /\ ~IsRaise(ShotsAlone(handled.data.start_nr))
                 /\ Scores(ShotsAlone(handled.data.start_nr).shots) = Scores(handled.body.shots)

====
